---- MODULE Spec2Model ----
(***************************************************************************)
(* Verification model of the pru_db core storage engine: the manifest      *)
(* (crates/pru_core/src/manifest.rs), the segment writer and reader        *)
(* (crates/pru_core/src/segment.rs), the postings codec, the resolver      *)
(* store and the add-resolver / compact / promote commands of pru_cli.     *)
(*                                                                         *)
(* Byte strings (paths, keys, values) are sequences of byte codes.         *)
(***************************************************************************)
EXTENDS Integers, Sequences, FiniteSets, TLC

VARIABLES
    man,        \* the in-memory Manifest {segments, active_paths, archived_paths}
    mprev,      \* the Manifest as it was before the last manifest operation
    lastOp,     \* the last manifest operation: "none" | "add" | "promote"
    lastRet,    \* the value returned by the last promote_resolver_compact
    streak,     \* number of consecutive promote_resolver_compact calls (capped)
    w,          \* the SegmentWriter (its fields and its position in finalize)
    fs,         \* the directory: file name -> file
    calls,      \* the add / add_hashed calls made on the writer, in order
    fs0,        \* the directory as it was before the writer was created
    dirents,    \* the store directory of the CLI: file name -> inode
    inodes,     \* the files of the store directory, by inode
    mjson,      \* manifest.json (<<>> while the file is absent)
    now,        \* the wall clock: seconds and nanoseconds
    cmd,        \* the CLI command in progress and its position
    store,      \* the ResolverStore a reader process has opened (<<>> while none)
    ncmds,      \* number of CLI commands started
    app,        \* the library function applied last: its name, arguments and result
    savers,     \* the processes inside Manifest::save_atomic: position and document
    mjson0,     \* manifest.json before the first save_atomic (<<>> while absent)
    loaded,     \* what the last Manifest::load returned (<<>> before the first)
    pru,        \* a PruStore: its tables in memory and its files on disk
    obs         \* what the PruStore calls returned so far

manVars == <<man, mprev, lastOp, lastRet, streak>>

segVars == <<w, fs, calls, fs0>>

cliVars == <<dirents, inodes, mjson, now, cmd, store, ncmds>>

libVars == <<app, savers, mjson0, loaded, pru, obs>>

vars == <<man, mprev, lastOp, lastRet, streak, w, fs, calls, fs0,
          dirents, inodes, mjson, now, cmd, store, ncmds,
          app, savers, mjson0, loaded, pru, obs>>

-----------------------------------------------------------------------------
(* Bounds of the model *)

\* longest `segments` list a manifest grows to
MaxSegs == 3
\* longest `segments` list of a manifest loaded from an older store
MaxLegacy == 2
\* most add / add_hashed calls on one writer
MaxItems == 2
\* most CLI commands run on one directory
MaxCmds == 3
\* longest id list given to the postings functions
MaxLen == 3

-----------------------------------------------------------------------------
(* Generic helpers *)

Range(s) == {s[i] : i \in 1..Len(s)}

Min2(a, b) == IF a <= b THEN a ELSE b

\* Vec::contains
Contains(s, x) == \E i \in 1..Len(s) : s[i] = x

\* byte-wise lexicographic order of two byte strings (str / single-component PathBuf Ord)
RECURSIVE LexLess(_, _)
LexLess(a, b) ==
    IF b = <<>> THEN FALSE
    ELSE IF a = <<>> THEN TRUE
    ELSE IF a[1] # b[1] THEN a[1] < b[1]
    ELSE LexLess(Tail(a), Tail(b))

LexLeq(a, b) == a = b \/ LexLess(a, b)

\* str::starts_with
StartsWith(s, p) == Len(s) >= Len(p) /\ SubSeq(s, 1, Len(p)) = p

\* format!("{}", n) for a non-negative integer: its decimal digits
RECURSIVE FormatDec(_)
FormatDec(n) == IF n < 10 THEN <<48 + n>> ELSE FormatDec(n \div 10) \o <<48 + (n % 10)>>

\* format!("{n:0width}"): decimal digits, zero-padded on the left
RECURSIVE PadDec(_, _)
PadDec(n, width) ==
    LET d == FormatDec(n) IN IF Len(d) >= width THEN d ELSE <<48>> \o PadDec(n, width - 1)

HexDigit(d) == IF d < 10 THEN 48 + d ELSE 87 + d

\* format!("{r:0widthx}"): lower-case hex digits, zero-padded on the left
RECURSIVE FormatHex(_, _)
FormatHex(r, width) ==
    IF width <= 1 /\ r < 16 THEN <<HexDigit(r)>>
    ELSE FormatHex(r \div 16, width - 1) \o <<HexDigit(r % 16)>>

-----------------------------------------------------------------------------
(* Segment kinds and segment names *)

SegmentKind == {"Dict", "Fact", "Resolver"}

\* "resolver-"
ResolverPrefix == <<114, 101, 115, 111, 108, 118, 101, 114, 45>>
\* "resolver-compact-"
ResolverCompactPrefix == ResolverPrefix \o <<99, 111, 109, 112, 97, 99, 116, 45>>
\* ".prus"
PrusSuffix == <<46, 112, 114, 117, 115>>

\* now_id(): "{secs}-{nanos:09}-{r:04x}"
NowId(secs, nanos, r) ==
    FormatDec(secs) \o <<45>> \o PadDec(nanos, 9) \o <<45>> \o FormatHex(r, 4)

\* Cmd::AddResolver: format!("resolver-{}.prus", now_ts())
ResolverSegName(ts) == ResolverPrefix \o FormatDec(ts) \o PrusSuffix

\* Cmd::Compact: format!("resolver-compact-{}.prus", now_id())
CompactSegName(secs, nanos, r) == ResolverCompactPrefix \o NowId(secs, nanos, r) \o PrusSuffix

\* "seg-1.prus": a name outside the CLI's naming scheme
OtherSegName == <<115, 101, 103, 45, 49>> \o PrusSuffix

-----------------------------------------------------------------------------
(* Manifest (crates/pru_core/src/manifest.rs) *)

SegmentRec(kind, path) == [kind |-> kind, path |-> path]

\* Manifest::default
EmptyManifest == [segments |-> <<>>, active_paths |-> <<>>, archived_paths |-> <<>>]

\* Manifest::add_segment
AddSegment(m, name, kind) ==
    [m EXCEPT !.segments = Append(@, SegmentRec(kind, name)),
              !.active_paths = IF Contains(@, name) THEN @ ELSE Append(@, name)]

\* Manifest::active_segment_paths
ActiveSegmentPaths(m) ==
    IF m.active_paths = <<>>
    THEN [i \in 1..Len(m.segments) |-> m.segments[i].path]
    ELSE LET set == Range(m.active_paths)
             act == SelectSeq(m.segments, LAMBDA s : s.path \in set)
         IN [i \in 1..Len(act) |-> act[i].path]

\* insertion of one record into a list sorted by path, after its equals (stable)
RECURSIVE InsertByPath(_, _)
InsertByPath(sorted, s) ==
    IF sorted = <<>> THEN <<s>>
    ELSE IF LexLess(s.path, sorted[1].path) THEN <<s>> \o sorted
    ELSE <<sorted[1]>> \o InsertByPath(Tail(sorted), s)

\* Vec::sort_by_key(|s| s.path.clone()): stable sort by path
RECURSIVE SortByPath(_)
SortByPath(recs) ==
    IF recs = <<>> THEN <<>>
    ELSE InsertByPath(SortByPath(SubSeq(recs, 1, Len(recs) - 1)), recs[Len(recs)])

\* the Resolver records of the manifest, sorted by path
SortedResolvers(m) == SortByPath(SelectSeq(m.segments, LAMBDA s : s.kind = "Resolver"))

\* the loop over the sorted records: the last one named resolver-compact-*, if any
LastCompact(resolver) ==
    LET idx == {i \in 1..Len(resolver) : StartsWith(resolver[i].path, ResolverCompactPrefix)}
    IN IF idx = {} THEN <<>>
       ELSE <<resolver[CHOOSE i \in idx : \A j \in idx : j <= i]>>

\* the winner chosen by promote_resolver_compact, with the preference for compacts dropped (mutation)
ChosenLatest(resolver) == resolver[Len(resolver)]

\* the winner chosen by promote_resolver_compact (resolver is sorted and non-empty)
Chosen(resolver) ==
    IF LastCompact(resolver) # <<>> THEN LastCompact(resolver)[1] ELSE resolver[Len(resolver)]

\* the non-resolver paths promote_resolver_compact keeps active
KeepNonResolver(m) ==
    LET set == Range(m.active_paths)
        kept == IF m.active_paths = <<>>
                THEN SelectSeq(m.segments, LAMBDA s : s.kind # "Resolver")
                ELSE SelectSeq(m.segments, LAMBDA s : s.kind # "Resolver" /\ s.path \in set)
    IN [i \in 1..Len(kept) |-> kept[i].path]

\* promote_resolver_compact that keeps the old active list and appends the winner (mutation)
PromoteAppendOnly(m) ==
    LET resolver == SortedResolvers(m) IN
    IF resolver = <<>> THEN m
    ELSE [m EXCEPT !.active_paths = Append(@, Chosen(resolver).path)]

\* Manifest::promote_resolver_compact: the manifest it leaves
PromoteResolverCompact(m) ==
    LET resolver == SortedResolvers(m) IN
    IF resolver = <<>> THEN m
    ELSE LET keep == Append(KeepNonResolver(m), Chosen(resolver).path)
             keep_set == Range(keep)
             arch == SelectSeq(m.segments, LAMBDA s : s.path \notin keep_set)
         IN [m EXCEPT !.active_paths = keep,
                      !.archived_paths = [i \in 1..Len(arch) |-> arch[i].path]]

\* a promotion that returns how many Resolver segments it found
PromoteReturnCount(m) == Len(SortedResolvers(m))

\* Manifest::promote_resolver_compact: the value it returns
PromoteReturn(m) == IF SortedResolvers(m) = <<>> THEN 0 ELSE 1

-----------------------------------------------------------------------------
(* Varints and the postings codec (crates/pru_core/src/utils.rs, postings.rs) *)

\* uvarint_encode: 7 bits per byte, low group first, MSB set on all but the last byte
RECURSIVE uvarint_encode(_)
uvarint_encode(n) ==
    IF n >= 128 THEN <<(n % 128) + 128>> \o uvarint_encode(n \div 128) ELSE <<n>>

\* the loop of uvarint_decode: x is the value so far, mult is 2^s; returns <<value, rest>>
RECURSIVE uvarint_decode_loop(_, _, _)
uvarint_decode_loop(data, x, mult) ==
    LET b == data[1] IN
    IF b < 128 THEN <<x + b * mult, Tail(data)>>
    ELSE uvarint_decode_loop(Tail(data), x + (b % 128) * mult, mult * 128)

\* uvarint_decode (data is not empty)
uvarint_decode(data) == uvarint_decode_loop(data, 0, 1)

\* an encoder that writes each id itself instead of its distance to the previous id
RECURSIVE encode_absolute(_, _)
encode_absolute(nums, prev) ==
    IF nums = <<>> THEN <<>>
    ELSE uvarint_encode(nums[1]) \o encode_absolute(Tail(nums), nums[1])

\* the loop of encode_sorted_u64 (nums is non-decreasing, so n - prev does not underflow)
RECURSIVE encode_from(_, _)
encode_from(nums, prev) ==
    IF nums = <<>> THEN <<>>
    ELSE uvarint_encode(nums[1] - prev) \o encode_from(Tail(nums), nums[1])

\* encode_sorted_u64
encode_sorted_u64(nums) == encode_from(nums, 0)

\* the loop of decode_sorted_u64
RECURSIVE decode_from(_, _)
decode_from(cur, prev) ==
    IF cur = <<>> THEN <<>>
    ELSE LET d == uvarint_decode(cur) IN <<prev + d[1]>> \o decode_from(d[2], prev + d[1])

\* decode_sorted_u64
decode_sorted_u64(buf) == decode_from(buf, 0)

\* a merge that appends b to a without comparing
merge_sorted_concat(a, b) == a \o b

\* a merge that pushes an id found in both lists only once (mutation)
RECURSIVE merge_sorted_once(_, _)
merge_sorted_once(a, b) ==
    IF a = <<>> THEN b
    ELSE IF b = <<>> THEN a
    ELSE IF a[1] = b[1] THEN <<a[1]>> \o merge_sorted_once(Tail(a), Tail(b))
    ELSE IF a[1] < b[1] THEN <<a[1]>> \o merge_sorted_once(Tail(a), b)
    ELSE <<b[1]>> \o merge_sorted_once(a, Tail(b))

\* merge_sorted: two-finger merge, ties take from a first, duplicates are kept
RECURSIVE merge_sorted(_, _)
merge_sorted(a, b) ==
    IF a = <<>> /\ b = <<>> THEN <<>>
    ELSE IF b = <<>> \/ (a # <<>> /\ a[1] <= b[1])
    THEN <<a[1]>> \o merge_sorted(Tail(a), b)
    ELSE <<b[1]>> \o merge_sorted(a, Tail(b))

\* Vec::dedup: consecutive equal elements are removed
RECURSIVE dedup(_)
dedup(v) ==
    IF Len(v) <= 1 THEN v
    ELSE IF v[1] = v[2] THEN dedup(Tail(v)) ELSE <<v[1]>> \o dedup(Tail(v))

\* an intersection that advances both fingers whenever the heads differ
RECURSIVE intersect_sorted_lockstep(_, _)
intersect_sorted_lockstep(a, b) ==
    IF a = <<>> \/ b = <<>> THEN <<>>
    ELSE IF a[1] = b[1] THEN <<a[1]>> \o intersect_sorted_lockstep(Tail(a), Tail(b))
    ELSE intersect_sorted_lockstep(Tail(a), Tail(b))

\* intersect_sorted: two-finger intersection, a match consumes one element of each
RECURSIVE intersect_sorted(_, _)
intersect_sorted(a, b) ==
    IF a = <<>> \/ b = <<>> THEN <<>>
    ELSE IF a[1] = b[1] THEN <<a[1]>> \o intersect_sorted(Tail(a), Tail(b))
    ELSE IF a[1] < b[1] THEN intersect_sorted(Tail(a), b)
    ELSE intersect_sorted(a, Tail(b))

\* insertion of x into a sorted list
RECURSIVE insert_sorted(_, _)
insert_sorted(v, x) ==
    IF v = <<>> THEN <<x>>
    ELSE IF x <= v[1] THEN <<x>> \o v ELSE <<v[1]>> \o insert_sorted(Tail(v), x)

\* sort_unstable on integers
RECURSIVE sort_unstable(_)
sort_unstable(v) == IF v = <<>> THEN <<>> ELSE insert_sorted(sort_unstable(Tail(v)), v[1])

-----------------------------------------------------------------------------
(* Digests (xxh3_64 and blake3 are library functions: they are modelled by    *)
(* tables over the keys of the model; the values are far below 2^64, so the  *)
(* wrapping arithmetic of the code never wraps here)                         *)

\* keys given to add / get
Keys == {<<1>>, <<2>>, <<3>>, <<4>>}

\* h64: xxh3_64(key). Keys <<1>> and <<3>> collide on h; <<1>> and <<2>> share
\* the home slot of a table of 4; <<4>> hashes to 0.
h64(key) == CASE key = <<1>> -> 3 [] key = <<2>> -> 7 [] key = <<3>> -> 3 [] OTHER -> 0

\* first 8 bytes of blake3(key), little-endian
Blake3Lo(key) == CASE key = <<1>> -> 5 [] key = <<2>> -> 13 [] key = <<3>> -> 6 [] OTHER -> 9

\* bytes 8..16 of blake3(key), little-endian
Blake3Hi(key) == CASE key = <<1>> -> 3 [] key = <<2>> -> 1 [] key = <<3>> -> 2 [] OTHER -> 4

\* fp64: the V2 fingerprint
fp64(key) == Blake3Lo(key)

\* sum of the bytes of a byte string
RECURSIVE SumBytes(_)
SumBytes(b) == IF b = <<>> THEN 0 ELSE b[1] + SumBytes(Tail(b))

\* crc32 (crc32fast, a library function): modelled by a 32-bit checksum of the bytes
crc32(data) == (SumBytes(data) * 31 + Len(data) * 7) % 65536

\* write_u32: four bytes, little-endian
LE32(v) == <<v % 256, (v \div 256) % 256, (v \div 65536) % 256, (v \div 16777216) % 256>>

-----------------------------------------------------------------------------
(* Bloom filter (crates/pru_core/src/filter.rs). `bits` is the byte vector:   *)
(* its length in bytes and the set of positions of its 1 bits.               *)

\* Bloom::new
BloomNew(m_bits, k) ==
    [m_bits |-> m_bits, k |-> IF k < 1 THEN 1 ELSE k,
     nbytes |-> (m_bits + 7) \div 8, ones |-> {}]

\* Bloom::from_bytes
BloomFromBytes(k, nbytes, ones) ==
    [m_bits |-> nbytes * 8, k |-> IF k < 1 THEN 1 ELSE k, nbytes |-> nbytes, ones |-> ones]

\* Bloom::hashes: the k bit positions of a key (never evaluated when m_bits is 0)
BloomHashes(b, key) == {(Blake3Lo(key) + i * Blake3Hi(key)) % b.m_bits : i \in 0..(b.k - 1)}

\* Bloom::add
BloomAdd(b, key) ==
    IF b.m_bits = 0 THEN b ELSE [b EXCEPT !.ones = @ \cup BloomHashes(b, key)]

\* Bloom::contains
BloomContains(b, key) ==
    IF b.m_bits = 0 THEN TRUE ELSE BloomHashes(b, key) \subseteq b.ones

-----------------------------------------------------------------------------
(* Segment files (crates/pru_core/src/segment.rs). A file is its 48-byte      *)
(* header, the bytes of its data region, and the index and filter blocks      *)
(* with the offsets they were written at.                                     *)

HDR_SIZE == 48
VERSION == 1
INDEX_KIND_HASHTAB_V1 == 1
INDEX_KIND_HASHTAB_V2 == 2
\* u32::from_le_bytes(*b"XOR8")
FILTER_TAG_XOR8 == 944918360
\* b"PRUS"
MAGIC_SEG == <<80, 82, 85, 83>>

\* `kind as u16`
KindCode(kind) == CASE kind = "Dict" -> 1 [] kind = "Fact" -> 2 [] OTHER -> 3

\* the 48 zero bytes create reserves for the header
ZeroHeader ==
    [magic |-> <<0, 0, 0, 0>>, version |-> 0, kind |-> 0,
     index_off |-> 0, filter_off |-> 0, data_off |-> 0, footer_off |-> 0]

\* the temp file right after create
NewTempFile == [hdr |-> ZeroHeader, body |-> <<>>, idx |-> <<>>, flt |-> <<>>, synced |-> FALSE]

\* byte size of an index block: kind:u32, cap:u64, cap rows
IndexBlockSize(blk) == 12 + blk.cap * (IF blk.kind = INDEX_KIND_HASHTAB_V1 THEN 24 ELSE 32)

\* byte size of a filter block: two u32 and the payload
FilterBlockSize(blk) == 8 + blk.len

\* seek(SeekFrom::End(0)): the current length of the file
FileEnd(f) ==
    HDR_SIZE + Len(f.body)
    + (IF f.idx = <<>> THEN 0 ELSE IndexBlockSize(f.idx[1]))
    + (IF f.flt = <<>> THEN 0 ELSE FilterBlockSize(f.flt[1]))

\* mmap[from..to] of the data region (absolute offsets; empty when out of the region)
Slice(f, from, to) ==
    IF from >= HDR_SIZE /\ from <= to /\ to <= HDR_SIZE + Len(f.body)
    THEN SubSeq(f.body, from - HDR_SIZE + 1, to - HDR_SIZE)
    ELSE <<>>

-----------------------------------------------------------------------------
(* SegmentWriter *)

NoWriter == [pc |-> "none"]

\* SegmentWriter::create: the writer (V2 index and XOR8 filter by default)
WriterCreate(path, kind, bloom_bits, bloom_k) ==
    [pc |-> "open", path_final |-> path, kind |-> kind, items |-> <<>>,
     bloom |-> BloomNew(bloom_bits, bloom_k),
     index_kind |-> INDEX_KIND_HASHTAB_V2, filter_kind |-> "Xor8",
     index_off |-> 0, bloom_off |-> 0]

\* add / add_hashed appending the value without its crc32 (mutation)
FileAppendRecordNoCrc(f, value) ==
    [f EXCEPT !.body = @ \o value, !.synced = FALSE]

\* the record add / add_hashed append to the data region: value bytes, then crc32
FileAppendRecord(f, value) ==
    [f EXCEPT !.body = @ \o value \o LE32(crc32(value)), !.synced = FALSE]

\* SegmentWriter::add: the writer it leaves (f is the temp file before the call)
WriterAdd(wr, f, key, value) ==
    [wr EXCEPT !.items = Append(@, <<h64(key), fp64(key), FileEnd(f), Len(value) + 4>>),
               !.bloom = BloomAdd(@, key)]

\* SegmentWriter::add_hashed: the writer it leaves
WriterAddHashed(wr, f, hash, value) ==
    [wr EXCEPT !.items = Append(@, <<hash, 0, FileEnd(f), Len(value) + 4>>)]

\* the capacity loop stopping as soon as cap reaches n: a full table (mutation)
RECURSIVE GrowCapFull(_, _)
GrowCapFull(cap, n) == IF cap < n THEN GrowCapFull(cap * 2, n) ELSE cap

\* `while cap < (n * 5) / 4 + 1 { cap <<= 1 }`
RECURSIVE GrowCap(_, _)
GrowCap(cap, n) == IF cap < (n * 5) \div 4 + 1 THEN GrowCap(cap * 2, n) ELSE cap

\* a table of one slot whatever the number of items
IndexCapOne(n) == 1

\* the capacity of the table built for n items
IndexCap(n) == GrowCap(1, n)

\* the table before the insertion loop (`vec![(0, ..); cap]`)
EmptyTable(cap) == [i \in 0..(cap - 1) |-> [h |-> 0, off |-> 0, size |-> 0]]

\* the probe loop of index construction: the first slot from idx whose h is 0
RECURSIVE ProbeEmpty(_, _, _)
ProbeEmpty(table, idx, cap) ==
    IF table[idx].h = 0 THEN idx ELSE ProbeEmpty(table, (idx + 1) % cap, cap)

RowV1(it) == [h |-> it[1], off |-> it[3], size |-> it[4]]
RowV2(it) == [h |-> it[1], fp |-> it[2], off |-> it[3], size |-> it[4]]

\* the insertion loop over the first n items of the writer, rows of the given index kind
RECURSIVE InsertItems(_, _, _, _, _)
InsertItems(table, items, n, cap, kind) ==
    IF n = 0 THEN table
    ELSE LET t == InsertItems(table, items, n - 1, cap, kind)
             it == items[n]
             slot == ProbeEmpty(t, it[1] % cap, cap)
         IN [t EXCEPT ![slot] = IF kind = INDEX_KIND_HASHTAB_V1 THEN RowV1(it) ELSE RowV2(it)]

\* an index build that stores every item in its home slot, without probing
BuildHashtableV1NoProbe(items) ==
    LET cap == IndexCap(Len(items))
        RECURSIVE Put(_, _)
        Put(t, n) == IF n = 0 THEN t
                     ELSE [Put(t, n - 1) EXCEPT ![items[n][1] % cap] = RowV1(items[n])]
    IN [kind |-> INDEX_KIND_HASHTAB_V1, cap |-> cap, rows |-> Put(EmptyTable(cap), Len(items))]

\* SegmentWriter::build_hashtable_v1 (`h & (cap - 1)` is h mod cap, cap being a power of two)
BuildHashtableV1(items) ==
    LET cap == IndexCap(Len(items))
        empty == [i \in 0..(cap - 1) |-> [h |-> 0, off |-> 0, size |-> 0]]
    IN [kind |-> INDEX_KIND_HASHTAB_V1, cap |-> cap,
        rows |-> InsertItems(empty, items, Len(items), cap, INDEX_KIND_HASHTAB_V1)]

\* SegmentWriter::build_hashtable_v2
BuildHashtableV2(items) ==
    LET cap == IndexCap(Len(items))
        empty == [i \in 0..(cap - 1) |-> [h |-> 0, fp |-> 0, off |-> 0, size |-> 0]]
    IN [kind |-> INDEX_KIND_HASHTAB_V2, cap |-> cap,
        rows |-> InsertItems(empty, items, Len(items), cap, INDEX_KIND_HASHTAB_V2)]

\* finalize, step 1: the index block for the writer's index kind
IndexBlock(wr) ==
    IF wr.index_kind = INDEX_KIND_HASHTAB_V1
    THEN BuildHashtableV1(wr.items) ELSE BuildHashtableV2(wr.items)

\* digests an XOR8 filter may report present although they were not built in
\* (the false positives of a build are not determined by the keys alone)
XorFalsePositives == {{}, {7}}

\* serialized length of an XOR8 filter over n keys (seed, block length, fingerprints)
XorBytesLen(n) == 16 + 3 * (((123 * n) \div 100 + 32) \div 3)

\* finalize, step 2: the filter block. Bloom: [k][blen][bits]; XOR8: [tag][len][bytes]
\* over the sorted, deduplicated digests of the items.
FilterBlock(wr, falsePos) ==
    IF wr.filter_kind = "Bloom"
    THEN [tag |-> wr.bloom.k, len |-> wr.bloom.nbytes, ones |-> wr.bloom.ones, keys |-> {}]
    ELSE LET digests == {wr.items[i][1] : i \in 1..Len(wr.items)}
         IN [tag |-> FILTER_TAG_XOR8, len |-> XorBytesLen(Cardinality(digests)),
             ones |-> {}, keys |-> digests \cup (falsePos \ digests)]

\* finalize, step 4: the header
Header(wr, footer_off) ==
    [magic |-> MAGIC_SEG, version |-> VERSION, kind |-> KindCode(wr.kind),
     index_off |-> wr.index_off, filter_off |-> wr.bloom_off,
     data_off |-> HDR_SIZE, footer_off |-> footer_off]

-----------------------------------------------------------------------------
(* finalize, step by step, on the writer and its temp file *)

\* step 1: index_off is the end of the data region; the index block is written there
StepIndex(wr, f) ==
    <<[wr EXCEPT !.pc = "idx", !.index_off = FileEnd(f)],
      [f EXCEPT !.idx = <<IndexBlock(wr)>>, !.synced = FALSE]>>

\* step 2: bloom_off is the end of the index block; the filter block is written there
StepFilter(wr, f, falsePos) ==
    <<[wr EXCEPT !.pc = "flt", !.bloom_off = FileEnd(f)],
      [f EXCEPT !.flt = <<FilterBlock(wr, falsePos)>>, !.synced = FALSE]>>

\* steps 3 and 4: footer_off is the end of the file; the header is back-filled
StepHeader(wr, f) ==
    [f EXCEPT !.hdr = Header(wr, FileEnd(f)), !.synced = FALSE]

\* sync_all
StepSync(f) == [f EXCEPT !.synced = TRUE]

\* what a crash may leave of a file whose writes were not synced
Torn(f) == IF f.synced THEN f ELSE [NewTempFile EXCEPT !.synced = TRUE]

\* step 5, tmp.persist(path_final): the temp file is renamed onto the final path
Persist(dir, tmp, final) ==
    [n \in (DOMAIN dir \ {tmp}) \cup {final} |-> IF n = final THEN dir[tmp] ELSE dir[n]]

\* one add or add_hashed call c = <<"add", key, value>> or <<"hashed", h, value>>
ApplyCall(st, c) ==
    <<IF c[1] = "add" THEN WriterAdd(st[1], st[2], c[2], c[3])
                      ELSE WriterAddHashed(st[1], st[2], c[2], c[3]),
      FileAppendRecord(st[2], c[3])>>

RECURSIVE ApplyCalls(_, _, _)
ApplyCalls(st, cs, n) == IF n = 0 THEN st ELSE ApplyCall(ApplyCalls(st, cs, n - 1), cs[n])

\* the file finalize publishes for a writer wr holding temp file f
FinalizedFile(wr, f, falsePos) ==
    LET s1 == StepIndex(wr, f)
        s2 == StepFilter(s1[1], s1[2], falsePos)
    IN StepSync(StepHeader(s2[1], s2[2]))

\* a whole segment: create, the setters, the calls cs, finalize
BuildSegment(kind, index_kind, filter_kind, bloom_bits, bloom_k, cs, falsePos) ==
    LET w0 == [WriterCreate(<<>>, kind, bloom_bits, bloom_k)
                  EXCEPT !.index_kind = index_kind, !.filter_kind = filter_kind]
        st == ApplyCalls(<<w0, NewTempFile>>, cs, Len(cs))
    IN FinalizedFile(st[1], st[2], falsePos)

-----------------------------------------------------------------------------
(* SegmentReader *)

\* SegmentReader::open succeeds: magic, version and kind are valid
ReaderOpens(f) ==
    /\ f.hdr.magic = MAGIC_SEG
    /\ f.hdr.version = VERSION
    /\ f.hdr.kind \in {1, 2, 3}

\* SegmentReader.kind
ReaderKind(f) == CASE f.hdr.kind = 1 -> "Dict" [] f.hdr.kind = 2 -> "Fact" [] OTHER -> "Resolver"

\* the index block the header's index_off points at (none when it points elsewhere)
IndexAt(f) ==
    IF f.idx # <<>> /\ f.hdr.index_off = HDR_SIZE + Len(f.body) THEN f.idx ELSE <<>>

\* the filter block the header's filter_off points at
FilterAt(f) ==
    IF f.idx # <<>> /\ f.flt # <<>>
       /\ f.hdr.filter_off = HDR_SIZE + Len(f.body) + IndexBlockSize(f.idx[1])
    THEN f.flt ELSE <<>>

\* SegmentReader::ensure_filter + filter_allows_key
FilterAllowsKey(f, key) ==
    LET blk == FilterAt(f)[1] IN
    IF blk.tag = FILTER_TAG_XOR8
    THEN h64(key) \in blk.keys
    ELSE BloomContains(BloomFromBytes(blk.tag, blk.len, blk.ones), key)

\* SegmentReader::filter_contains_digest (<<>> is None)
FilterContainsDigest(f, digest) ==
    LET blk == FilterAt(f)[1] IN
    IF blk.tag = FILTER_TAG_XOR8 THEN <<digest \in blk.keys>> ELSE <<>>

\* the probe loop of get: n probes left, at slot idx; <<>> is None, <<v>> is Some(v)
RECURSIVE ProbeGet(_, _, _, _, _)
ProbeGet(f, blk, key, idx, n) ==
    IF n = 0 THEN <<>>
    ELSE LET row == blk.rows[idx] IN
         IF row.h = 0 THEN <<>>
         ELSE IF blk.kind = INDEX_KIND_HASHTAB_V1
         THEN IF row.h = h64(key)
              THEN <<Slice(f, row.off, row.off + row.size - 4)>>
              ELSE ProbeGet(f, blk, key, (idx + 1) % blk.cap, n - 1)
         ELSE IF row.h = h64(key) /\ row.fp = fp64(key)
              THEN <<Slice(f, row.off, row.off + row.size - 4)>>
              ELSE ProbeGet(f, blk, key, (idx + 1) % blk.cap, n - 1)

\* the probe loop of get: the number of slots it examines
RECURSIVE ProbeGetSteps(_, _, _, _)
ProbeGetSteps(blk, key, idx, n) ==
    IF n = 0 THEN 0
    ELSE LET row == blk.rows[idx] IN
         IF row.h = 0 THEN 1
         ELSE IF row.h = h64(key) /\ (blk.kind = INDEX_KIND_HASHTAB_V1 \/ row.fp = fp64(key))
         THEN 1
         ELSE 1 + ProbeGetSteps(blk, key, (idx + 1) % blk.cap, n - 1)

\* SegmentReader::get (f is a file that open accepted)
Get(f, key) ==
    IF ~FilterAllowsKey(f, key) THEN <<>>
    ELSE LET blk == IndexAt(f)[1] IN
         IF blk.cap = 0 THEN <<>>
         ELSE ProbeGet(f, blk, key, h64(key) % blk.cap, blk.cap)

\* SegmentReader::iter: the live rows in slot order
Iter(f) ==
    LET blk == IndexAt(f)[1]
        slots == [i \in 1..blk.cap |-> blk.rows[i - 1]]
    IN SelectSeq(slots, LAMBDA r : r.h # 0)

\* SegmentReader::value_at panics: `&self.mmap[off..end-4]` with off > end - 4
ValueAtPanics(f, off, size) ==
    /\ off + size >= 4
    /\ off + size <= FileEnd(f)
    /\ size < 4

\* SegmentReader::value_at when it returns (<<>> is None)
ValueAt(f, off, size) ==
    IF off + size < 4 \/ off + size > FileEnd(f) THEN <<>>
    ELSE <<Slice(f, off, off + size - 4)>>

\* SegmentReader::verify_crc_at
VerifyCrcAt(f, off, size) ==
    IF off + size > FileEnd(f) \/ size < 4 THEN FALSE
    ELSE LE32(crc32(Slice(f, off, off + size - 4))) = Slice(f, off + size - 4, off + size)

-----------------------------------------------------------------------------
(* The directory on disk: `dir` maps a file name to an inode, `inodes` holds   *)
(* the files, `mjson` is manifest.json (<<>> while absent).                    *)

\* a document that carries the segments only
ManifestDocumentSegmentsOnly(m) == [f \in {"segments"} |-> m[f]]

\* serde_json::to_string_pretty(manifest): empty active_paths / archived_paths are skipped
ManifestDocument(m) ==
    [f \in {"segments"}
           \cup (IF m.active_paths = <<>> THEN {} ELSE {"active_paths"})
           \cup (IF m.archived_paths = <<>> THEN {} ELSE {"archived_paths"}) |-> m[f]]

\* serde_json::from_str: a missing active_paths / archived_paths is the empty list
ManifestParse(doc) ==
    [segments |-> doc.segments,
     active_paths |-> IF "active_paths" \in DOMAIN doc THEN doc.active_paths ELSE <<>>,
     archived_paths |-> IF "archived_paths" \in DOMAIN doc THEN doc.archived_paths ELSE <<>>]

\* Manifest::load
ManifestLoad(json) == IF json = <<>> THEN EmptyManifest ELSE ManifestParse(json[1])

\* Manifest::save_atomic: the manifest.json it leaves
ManifestSave(m) == <<ManifestDocument(m)>>

\* SegmentReader::open(dir.join(name)) succeeds
CanOpen(d, ino, name) == name \in DOMAIN d /\ ReaderOpens(ino[d[name]])

-----------------------------------------------------------------------------
(* ResolverStore (crates/pru_core/src/resolver_store.rs). A reader is the      *)
(* inode it has mapped.                                                        *)

\* the kind of the first manifest record with this path (<<>> when there is none)
FindKind(m, p) ==
    LET idx == {i \in 1..Len(m.segments) : m.segments[i].path = p}
    IN IF idx = {} THEN <<>> ELSE <<m.segments[CHOOSE i \in idx : \A j \in idx : i <= j].kind>>

\* the first loop of open run over every manifest record instead of the active paths
ActiveReadersAll(d, ino, m) ==
    LET ok == SelectSeq(m.segments, LAMBDA r :
                 /\ FindKind(m, r.path) \in {<<>>, <<"Resolver">>}
                 /\ CanOpen(d, ino, r.path)
                 /\ ReaderKind(ino[d[r.path]]) = "Resolver")
    IN [i \in 1..Len(ok) |-> d[ok[i].path]]

\* the first loop of open: the active paths recorded as Resolver that open as Resolver
ActiveReaders(d, ino, m) ==
    LET act == ActiveSegmentPaths(m)
        ok == SelectSeq(act, LAMBDA p :
                 /\ FindKind(m, p) \in {<<>>, <<"Resolver">>}
                 /\ CanOpen(d, ino, p)
                 /\ ReaderKind(ino[d[p]]) = "Resolver")
    IN [i \in 1..Len(ok) |-> d[ok[i]]]

\* the fallback loop of open: every Resolver record whose file opens
FallbackReaders(d, ino, m) ==
    LET ok == SelectSeq(m.segments, LAMBDA r : r.kind = "Resolver" /\ CanOpen(d, ino, r.path))
    IN [i \in 1..Len(ok) |-> d[ok[i].path]]

\* ResolverStore::open: the readers of the store
StoreOpen(d, ino, json) ==
    LET m == ManifestLoad(json) IN
    IF ActiveReaders(d, ino, m) # <<>> THEN ActiveReaders(d, ino, m)
    ELSE FallbackReaders(d, ino, m)

\* the file a reader has mapped
ReaderFile(ino, r) == ino[r]

\* the loop of resolve over the first n readers
RECURSIVE ResolveLoop(_, _, _, _)
ResolveLoop(ino, readers, key, n) ==
    IF n = 0 THEN <<>>
    ELSE LET out == ResolveLoop(ino, readers, key, n - 1)
             got == Get(ReaderFile(ino, readers[n]), key)
         IN IF got = <<>> THEN out ELSE merge_sorted(out, decode_sorted_u64(got[1]))

\* ResolverStore::resolve
Resolve(ino, readers, key) == ResolveLoop(ino, readers, key, Len(readers))

\* resolve for every key of the model
ResolveAll(ino, readers) == [k \in Keys |-> Resolve(ino, readers, k)]

\* key lists given to resolve_with_mode
KeyLists == {<<>>} \cup {<<k>> : k \in Keys} \cup {<<j, k>> : j, k \in Keys}

\* ResolveMode::Union: the loop over the first n keys
RECURSIVE ResolveUnionLoop(_, _, _, _)
ResolveUnionLoop(ino, readers, keys, n) ==
    IF n = 0 THEN <<>>
    ELSE merge_sorted(ResolveUnionLoop(ino, readers, keys, n - 1),
                      Resolve(ino, readers, keys[n]))

\* resolve_with_mode_set(Union, keys, _)
ResolveUnion(ino, readers, keys) == ResolveUnionLoop(ino, readers, keys, Len(keys))

\* Dedup mode without its dedup pass (mutation)
ResolveDedupNoPass(ino, readers, keys) == ResolveUnion(ino, readers, keys)

\* resolve_with_mode_set(Dedup, keys, _)
ResolveDedup(ino, readers, keys) == dedup(ResolveUnionLoop(ino, readers, keys, Len(keys)))

\* ResolveMode::Intersect: acc after the keys 2..n (the loop breaks once acc is empty)
RECURSIVE ResolveIntersectLoop(_, _, _, _, _)
ResolveIntersectLoop(ino, readers, keys, set_semantics, n) ==
    IF n = 1
    THEN IF set_semantics THEN dedup(Resolve(ino, readers, keys[1]))
         ELSE Resolve(ino, readers, keys[1])
    ELSE LET acc == ResolveIntersectLoop(ino, readers, keys, set_semantics, n - 1)
             v == Resolve(ino, readers, keys[n])
         IN IF acc = <<>> THEN <<>>
            ELSE intersect_sorted(acc, IF set_semantics THEN dedup(v) ELSE v)

\* Intersect mode ignoring set_semantics: the operands are never deduplicated (mutation)
ResolveIntersectRaw(ino, readers, keys, set_semantics) ==
    IF keys = <<>> THEN <<>>
    ELSE ResolveIntersectLoop(ino, readers, keys, FALSE, Len(keys))

\* resolve_with_mode_set(Intersect, keys, set_semantics)
ResolveIntersect(ino, readers, keys, set_semantics) ==
    IF keys = <<>> THEN <<>>
    ELSE ResolveIntersectLoop(ino, readers, keys, set_semantics, Len(keys))

\* ResolverStore::resolve_with_mode_set
ResolveWithModeSet(ino, readers, mode, keys, set_semantics) ==
    CASE mode = "Union" -> ResolveUnion(ino, readers, keys)
      [] mode = "Dedup" -> ResolveDedup(ino, readers, keys)
      [] mode = "Intersect" -> ResolveIntersect(ino, readers, keys, set_semantics)

-----------------------------------------------------------------------------
(* Cmd::Compact: the merge of all Resolver segments of the manifest *)

\* the update of mp without the skip of empty lists (mutation)
CompactEntryKeepEmpty(mp, f, e) ==
    LET val == ValueAt(f, e.off, e.size) IN
    IF val = <<>> THEN mp
    ELSE LET lst == dedup(sort_unstable(decode_sorted_u64(val[1]))) IN
         IF e.h \in DOMAIN mp
         THEN [mp EXCEPT ![e.h] = merge_sorted(@, lst)]
         ELSE mp @@ (e.h :> lst)

\* the update of mp for one index entry e of file f
CompactEntry(mp, f, e) ==
    LET val == ValueAt(f, e.off, e.size) IN
    IF val = <<>> THEN mp
    ELSE LET lst == dedup(sort_unstable(decode_sorted_u64(val[1]))) IN
         IF lst = <<>> THEN mp
         ELSE IF e.h \in DOMAIN mp
         THEN [mp EXCEPT ![e.h] = merge_sorted(@, lst)]
         ELSE mp @@ (e.h :> lst)

\* the loop over the first n entries of r.iter()
RECURSIVE CompactEntries(_, _, _, _)
CompactEntries(mp, f, es, n) ==
    IF n = 0 THEN mp ELSE CompactEntry(CompactEntries(mp, f, es, n - 1), f, es[n])

\* the loop over the first n Resolver records of the manifest (all of them open)
RECURSIVE CompactSegments(_, _, _, _)
CompactSegments(d, ino, recs, n) ==
    IF n = 0 THEN <<>>
    ELSE LET f == ino[d[recs[n].path]]
         IN CompactEntries(CompactSegments(d, ino, recs, n - 1), f, Iter(f), Len(Iter(f)))

\* the Resolver records Cmd::Compact reads
CompactInputs(m) == SelectSeq(m.segments, LAMBDA r : r.kind = "Resolver")

\* mp: hash -> merged posting list
CompactMap(d, ino, m) ==
    CompactSegments(d, ino, CompactInputs(m), Len(CompactInputs(m)))

\* the add_hashed calls of Cmd::Compact: the hashes of mp in ascending order
CompactCalls(mp) ==
    LET SortedKeys == sort_unstable(CHOOSE q \in [1..Cardinality(DOMAIN mp) -> DOMAIN mp] :
                                        \A i, j \in DOMAIN q : i # j => q[i] # q[j])
    IN [i \in 1..Len(SortedKeys) |-> <<"hashed", SortedKeys[i], encode_sorted_u64(mp[SortedKeys[i]])>>]

\* the add call of Cmd::AddResolver: the ids sorted and deduplicated, then encoded
AddResolverCalls(key, ids) == <<<<"add", key, encode_sorted_u64(dedup(sort_unstable(ids)))>>>>

-----------------------------------------------------------------------------
(* Manifest operations as a state machine *)

\* names add_segment is called with
ManNames == {ResolverSegName(9), ResolverSegName(10),
             CompactSegName(9, 0, 0), CompactSegName(10, 0, 0), OtherSegName}

\* kinds add_segment is called with (Fact is treated like Dict throughout)
ManKinds == {"Dict", "Resolver"}

\* duplicate-free lists of segment records of length at most n
DistinctRecLists(n) ==
    UNION {{s \in [1..k -> [kind : ManKinds, path : ManNames]] :
               \A i, j \in 1..k : i # j => s[i].path # s[j].path} : k \in 0..n}

\* manifests loaded from an older store: only `segments` is present
LegacyManifests ==
    {[segments |-> s, active_paths |-> <<>>, archived_paths |-> <<>>] :
        s \in DistinctRecLists(MaxLegacy)}

\* the variables of the segment writer while it is not used
SegIdle == w = NoWriter /\ fs = <<>> /\ calls = <<>> /\ fs0 = <<>>

\* the first reading of the clock, in seconds
FirstSecond == 9

\* no command in progress; `last` and `result` are the command that ended last
\* and how it ended ("ok", or "err" when it returned an error)
Ended(name, result) == [op |-> "none", last |-> name, result |-> result]

NoCmd == Ended("none", "ok")

\* the variables of the library machines while they are not used
LibIdle ==
    /\ app = [fn |-> "none"]
    /\ savers = <<>> /\ mjson0 = <<>> /\ loaded = <<>>
    /\ pru = <<>> /\ obs = <<>>

\* the variables of the CLI while it is not used
CliIdle ==
    /\ dirents = <<>> /\ inodes = <<>> /\ mjson = <<>>
    /\ now = [secs |-> FirstSecond, nanos |-> 0]
    /\ cmd = NoCmd /\ store = <<>> /\ ncmds = 0

ManInit ==
    /\ SegIdle
    /\ CliIdle
    /\ LibIdle
    /\ man \in LegacyManifests
    /\ mprev = man
    /\ lastOp = "none"
    /\ lastRet = 0
    /\ streak = 0

ManAddSegment ==
    /\ Len(man.segments) < MaxSegs
    /\ \E name \in ManNames, kind \in ManKinds :
          man' = AddSegment(man, name, kind)
    /\ mprev' = man
    /\ lastOp' = "add"
    /\ streak' = 0
    /\ UNCHANGED <<lastRet, segVars, libVars, cliVars>>

ManPromote ==
    /\ man' = PromoteResolverCompact(man)
    /\ lastRet' = PromoteReturn(man)
    /\ mprev' = man
    /\ lastOp' = "promote"
    /\ streak' = Min2(streak + 1, 2)
    /\ UNCHANGED <<segVars, libVars, cliVars>>

ManNext == ManAddSegment \/ ManPromote

SpecMan == ManInit /\ [][ManNext]_vars

-----------------------------------------------------------------------------
(* One segment writer as a state machine: create, setters, add, add_hashed,   *)
(* the steps of finalize, and a crash of the writing process at any step.    *)

\* the path given to create
FinalPath == ResolverSegName(9)

\* the NamedTempFile of the writer: "pru_seg_" and a random suffix
TmpPath == <<112, 114, 117, 95, 115, 101, 103, 95>> \o FormatHex(10, 6)

\* values given to add / add_hashed
Values == {<<>>, <<2, 1>>}

\* hashes given to add_hashed
Hashes == {0, 3, 7}

\* (bloom_bits, bloom_k) given to create
BloomParams == {<<0, 0>>, <<12, 2>>, <<16, 2>>}

\* a segment published at the final path by an earlier writer
OldSegment ==
    BuildSegment("Resolver", INDEX_KIND_HASHTAB_V2, "Xor8", 16, 2, <<<<"add", <<2>>, <<9>>>>>>, {})

\* the variables of the manifest machine while it is not used
ManIdle ==
    /\ man = EmptyManifest /\ mprev = EmptyManifest
    /\ lastOp = "none" /\ lastRet = 0 /\ streak = 0

SegInit ==
    /\ ManIdle
    /\ CliIdle
    /\ LibIdle
    /\ w = NoWriter
    /\ fs \in {<<>>, FinalPath :> OldSegment}
    /\ calls = <<>>
    /\ fs0 = fs

\* SegmentWriter::create
SegCreate ==
    /\ w.pc = "none"
    /\ \E kind \in {"Resolver"}, bp \in BloomParams :
          w' = WriterCreate(FinalPath, kind, bp[1], bp[2])
    /\ fs' = fs @@ (TmpPath :> NewTempFile)
    /\ UNCHANGED <<calls, fs0, manVars, libVars, cliVars>>

\* SegmentWriter::set_index_kind
SegSetIndexKind ==
    /\ w.pc = "open"
    /\ \E k \in {INDEX_KIND_HASHTAB_V1, INDEX_KIND_HASHTAB_V2} :
          /\ k # w.index_kind
          /\ w' = [w EXCEPT !.index_kind = k]
    /\ UNCHANGED <<fs, calls, fs0, manVars, libVars, cliVars>>

\* SegmentWriter::set_filter_xor8
SegSetFilterXor8 ==
    /\ w.pc = "open"
    /\ w.filter_kind # "Xor8"
    /\ w' = [w EXCEPT !.filter_kind = "Xor8"]
    /\ UNCHANGED <<fs, calls, fs0, manVars, libVars, cliVars>>

\* SegmentWriter::set_filter_bloom
SegSetFilterBloom ==
    /\ w.pc = "open"
    /\ w.filter_kind # "Bloom"
    /\ w' = [w EXCEPT !.filter_kind = "Bloom"]
    /\ UNCHANGED <<fs, calls, fs0, manVars, libVars, cliVars>>

\* SegmentWriter::add
SegAdd ==
    /\ w.pc = "open"
    /\ Len(w.items) < MaxItems
    /\ \E key \in Keys, value \in Values :
          /\ w' = WriterAdd(w, fs[TmpPath], key, value)
          /\ fs' = [fs EXCEPT ![TmpPath] = FileAppendRecord(@, value)]
          /\ calls' = Append(calls, <<"add", key, value>>)
    /\ UNCHANGED <<fs0, manVars, libVars, cliVars>>

\* SegmentWriter::add_hashed
SegAddHashed ==
    /\ w.pc = "open"
    /\ Len(w.items) < MaxItems
    /\ \E hash \in Hashes, value \in Values :
          /\ w' = WriterAddHashed(w, fs[TmpPath], hash, value)
          /\ fs' = [fs EXCEPT ![TmpPath] = FileAppendRecord(@, value)]
          /\ calls' = Append(calls, <<"hashed", hash, value>>)
    /\ UNCHANGED <<fs0, manVars, libVars, cliVars>>

\* finalize: the index block is built and written
SegFinalizeIndex ==
    /\ w.pc = "open"
    /\ w' = StepIndex(w, fs[TmpPath])[1]
    /\ fs' = [fs EXCEPT ![TmpPath] = StepIndex(w, @)[2]]
    /\ UNCHANGED <<calls, fs0, manVars, libVars, cliVars>>

\* finalize: the filter block is built and written
SegFinalizeFilter ==
    /\ w.pc = "idx"
    /\ \E falsePos \in (IF w.filter_kind = "Xor8" THEN XorFalsePositives ELSE {{}}) :
          /\ w' = StepFilter(w, fs[TmpPath], falsePos)[1]
          /\ fs' = [fs EXCEPT ![TmpPath] = StepFilter(w, @, falsePos)[2]]
    /\ UNCHANGED <<calls, fs0, manVars, libVars, cliVars>>

\* finalize: the header is back-filled
SegFinalizeHeader ==
    /\ w.pc = "flt"
    /\ w' = [w EXCEPT !.pc = "hdr"]
    /\ fs' = [fs EXCEPT ![TmpPath] = StepHeader(w, @)]
    /\ UNCHANGED <<calls, fs0, manVars, libVars, cliVars>>

\* finalize: sync_all
SegFinalizeSync ==
    /\ w.pc = "hdr"
    /\ w' = [w EXCEPT !.pc = "synced"]
    /\ fs' = [fs EXCEPT ![TmpPath] = StepSync(@)]
    /\ UNCHANGED <<calls, fs0, manVars, libVars, cliVars>>

\* finalize publishing the temp file as soon as the index is written (mutation)
SegFinalizePersistEarly ==
    /\ w.pc \in {"idx", "synced"}
    /\ w' = [w EXCEPT !.pc = "done"]
    /\ fs' = Persist(fs, TmpPath, w.path_final)
    /\ UNCHANGED <<calls, fs0, manVars, libVars, cliVars>>

\* finalize: persist (rename onto the final path) and fsync of the directory
SegFinalizePersist ==
    /\ w.pc = "synced"
    /\ w' = [w EXCEPT !.pc = "done"]
    /\ fs' = Persist(fs, TmpPath, w.path_final)
    /\ UNCHANGED <<calls, fs0, manVars, libVars, cliVars>>

\* finalize returns an I/O error from one of its steps before persist (writing the
\* index, building or writing the filter, writing the header, sync_all): the
\* writer is dropped, and the drop of its NamedTempFile removes the temp file
SegFinalizeFail ==
    /\ w.pc \in {"open", "idx", "flt", "hdr"}
    /\ w' = [w EXCEPT !.pc = "failed"]
    /\ fs' = [n \in DOMAIN fs \ {TmpPath} |-> fs[n]]
    /\ UNCHANGED <<calls, fs0, manVars, libVars, cliVars>>

\* finalize returns the error of persist: the rename did not happen, and the
\* PruError::Persist it returns owns the PersistError, which owns the NamedTempFile
SegPersistFail ==
    /\ w.pc = "synced"
    /\ w' = [w EXCEPT !.pc = "persist_failed"]
    /\ UNCHANGED <<fs, calls, fs0, manVars, libVars, cliVars>>

\* the caller drops the error finalize returned: the NamedTempFile inside it is
\* dropped and the temp file removed
SegDropError ==
    /\ w.pc = "persist_failed"
    /\ w' = [w EXCEPT !.pc = "failed"]
    /\ fs' = [n \in DOMAIN fs \ {TmpPath} |-> fs[n]]
    /\ UNCHANGED <<calls, fs0, manVars, libVars, cliVars>>

\* the writing process dies (kill or power loss) before finalize returns: its
\* NamedTempFile is not dropped, and writes that were not synced may be lost
SegCrash ==
    /\ w.pc \in {"open", "idx", "flt", "hdr", "synced"}
    /\ w' = [w EXCEPT !.pc = "crashed"]
    /\ \E lose \in BOOLEAN :
          fs' = IF lose THEN [n \in DOMAIN fs |-> Torn(fs[n])] ELSE fs
    /\ UNCHANGED <<calls, fs0, manVars, libVars, cliVars>>

SegNext ==
    \/ SegCreate \/ SegSetIndexKind \/ SegSetFilterXor8 \/ SegSetFilterBloom
    \/ SegAdd \/ SegAddHashed
    \/ SegFinalizeIndex \/ SegFinalizeFilter \/ SegFinalizeHeader
    \/ SegFinalizeSync \/ SegFinalizePersist
    \/ SegFinalizeFail \/ SegPersistFail \/ SegDropError
    \/ SegCrash

SpecSeg == SegInit /\ [][SegNext]_vars

-----------------------------------------------------------------------------
(* The CLI commands on one store directory (crates/pru_cli/src/main.rs):       *)
(* add-resolver and compact run in three steps (write the temp file, finalize, *)
(* update the manifest), promote in one; a reader process opens a              *)
(* ResolverStore at any moment. Commands run one at a time.                   *)

\* keys given to add-resolver
CliKeys == {<<1>>, <<2>>}

\* id lists given to add-resolver
IdLists == {<<1, 3, 5>>, <<3, 5, 7>>}

\* values of the random u16 of now_id
RandU16 == {43981}

\* 1 << 20 and 7: the Bloom parameters the CLI passes to create
CliBloomBits == 1048576
CliBloomK == 7

\* the clock after a command has read it (add-resolver and compact read it, the
\* others do not): later in the same second, or in the next
LaterTimes(t) == {[t EXCEPT !.nanos = @ + 1], [secs |-> t.secs + 1, nanos |-> 0]}

\* what a ResolverStore opened now resolves, for every key
FreshResults == ResolveAll(inodes, StoreOpen(dirents, inodes, mjson))

CliInit ==
    /\ ManIdle
    /\ SegIdle
    /\ CliIdle
    /\ LibIdle

\* every Resolver segment the manifest lists is active
AllResolversActive ==
    LET m == ManifestLoad(mjson) IN
    \A i \in DOMAIN m.segments :
        m.segments[i].kind = "Resolver" => Contains(ActiveSegmentPaths(m), m.segments[i].path)

\* the temp file of a command: created, and the calls cs applied to it
CliWriteTemp(command, name, index_kind, cs) ==
    LET w0 == [WriterCreate(name, "Resolver", CliBloomBits, CliBloomK)
                  EXCEPT !.index_kind = index_kind]
        st == ApplyCalls(<<w0, NewTempFile>>, cs, Len(cs))
    IN /\ inodes' = Append(inodes, st[2])
       /\ dirents' = dirents @@ (TmpPath :> Len(inodes) + 1)
       /\ cmd' = [op |-> "write", name |-> command, pc |-> "written",
                  seg_name |-> name, wr |-> st[1], pre |-> FreshResults, cs |-> cs,
                  all_active |-> AllResolversActive]

\* Cmd::AddResolver up to the add call
CliAddResolverStart ==
    /\ cmd.op = "none"
    /\ ncmds < MaxCmds
    /\ \E key \in CliKeys, ids \in IdLists :
          CliWriteTemp("add-resolver", ResolverSegName(now.secs), INDEX_KIND_HASHTAB_V2,
                       AddResolverCalls(key, ids))
    /\ now' \in LaterTimes(now)
    /\ ncmds' = ncmds + 1
    /\ UNCHANGED <<mjson, store, manVars, segVars, libVars>>

\* Cmd::Compact up to the last add_hashed call
CliCompactStart ==
    /\ cmd.op = "none"
    /\ ncmds < MaxCmds
    /\ CompactInputs(ManifestLoad(mjson)) # <<>>
    /\ \A i \in DOMAIN CompactInputs(ManifestLoad(mjson)) :
          CanOpen(dirents, inodes, CompactInputs(ManifestLoad(mjson))[i].path)
    /\ \E r \in RandU16 :
          CliWriteTemp("compact", CompactSegName(now.secs, now.nanos, r),
                       INDEX_KIND_HASHTAB_V1,
                       CompactCalls(CompactMap(dirents, inodes, ManifestLoad(mjson))))
    /\ now' \in LaterTimes(now)
    /\ ncmds' = ncmds + 1
    /\ UNCHANGED <<mjson, store, manVars, segVars, libVars>>

\* Cmd::Compact without the input_segments check: an empty segment is written
CliCompactEmpty ==
    /\ cmd.op = "none"
    /\ ncmds < MaxCmds
    /\ CompactInputs(ManifestLoad(mjson)) = <<>>
    /\ \E r \in RandU16 :
          CliWriteTemp("compact", CompactSegName(now.secs, now.nanos, r),
                       INDEX_KIND_HASHTAB_V1, <<>>)
    /\ now' \in LaterTimes(now)
    /\ ncmds' = ncmds + 1
    /\ UNCHANGED <<mjson, store, manVars, segVars, libVars>>

\* Cmd::Compact on a manifest without Resolver segments: "no resolver segments to compact"
CliCompactFail ==
    /\ cmd.op = "none"
    /\ ncmds < MaxCmds
    /\ CompactInputs(ManifestLoad(mjson)) = <<>>
    /\ cmd' = Ended("compact", "err")
    /\ ncmds' = ncmds + 1
    /\ UNCHANGED <<dirents, inodes, mjson, now, store, manVars, segVars, libVars>>

\* w.finalize() of either command: the blocks and the header are written, the temp
\* file is renamed onto the segment name
CliFinalize ==
    /\ cmd.op = "write"
    /\ cmd.pc = "written"
    /\ \E falsePos \in XorFalsePositives :
          inodes' = [inodes EXCEPT ![dirents[TmpPath]] = FinalizedFile(cmd.wr, @, falsePos)]
    /\ dirents' = Persist(dirents, TmpPath, cmd.seg_name)
    /\ cmd' = [cmd EXCEPT !.pc = "published"]
    /\ UNCHANGED <<mjson, now, store, ncmds, manVars, segVars, libVars>>

\* the postings the add-resolver commands that returned Ok have added under key
\* (history: obs maps a key to the ids added under it)
Added(key) == IF key \in DOMAIN obs THEN obs[key] ELSE {}

\* the history after a command with the calls cs has returned Ok
AddedAfter(command, cs) ==
    IF command # "add-resolver" THEN obs
    ELSE [k \in DOMAIN obs \cup {cs[1][2]} |->
             IF k = cs[1][2] THEN Added(k) \cup Range(decode_sorted_u64(cs[1][3]))
             ELSE Added(k)]

\* a compaction has returned Ok (history: `pre` is what a store opened before it
\* resolved, `all_active` whether every listed Resolver segment was active then)
EndedCompact(pre, all_active) ==
    [op |-> "none", last |-> "compact", result |-> "ok", pre |-> pre, all_active |-> all_active]

\* the manifest update run before w.finalize() (mutation)
CliSaveManifestEarly ==
    /\ cmd.op = "write"
    /\ cmd.pc = "written"
    /\ mjson' = ManifestSave(AddSegment(ManifestLoad(mjson), cmd.seg_name, "Resolver"))
    /\ cmd' = IF cmd.name = "compact" THEN EndedCompact(cmd.pre, cmd.all_active)
               ELSE Ended(cmd.name, "ok")
    /\ obs' = AddedAfter(cmd.name, cmd.cs)
    /\ UNCHANGED <<dirents, inodes, now, store, ncmds, manVars, segVars>>
    /\ UNCHANGED <<app, savers, mjson0, loaded, pru>>

\* the end of either command: Manifest::load, add_segment, save_atomic
CliSaveManifest ==
    /\ cmd.op = "write"
    /\ cmd.pc = "published"
    /\ mjson' = ManifestSave(AddSegment(ManifestLoad(mjson), cmd.seg_name, "Resolver"))
    /\ cmd' = IF cmd.name = "compact" THEN EndedCompact(cmd.pre, cmd.all_active)
               ELSE Ended(cmd.name, "ok")
    /\ obs' = AddedAfter(cmd.name, cmd.cs)
    /\ UNCHANGED <<dirents, inodes, now, store, ncmds, manVars, segVars>>
    /\ UNCHANGED <<app, savers, mjson0, loaded, pru>>

\* Cmd::Promote
CliPromote ==
    /\ cmd.op = "none"
    /\ ncmds < MaxCmds
    /\ mjson' = ManifestSave(PromoteResolverCompact(ManifestLoad(mjson)))
    /\ cmd' = Ended("promote", "ok")
    /\ ncmds' = ncmds + 1
    /\ UNCHANGED <<dirents, inodes, now, store, manVars, segVars, libVars>>

\* a reader process calls ResolverStore::open; `seen` is what it resolves right then
CliStoreOpen ==
    /\ store = <<>>
    /\ store' = <<[readers |-> StoreOpen(dirents, inodes, mjson), seen |-> FreshResults]>>
    /\ UNCHANGED <<dirents, inodes, mjson, now, cmd, ncmds, manVars, segVars, libVars>>

CliNext ==
    \/ CliAddResolverStart \/ CliCompactStart \/ CliCompactFail
    \/ CliFinalize \/ CliSaveManifest \/ CliPromote \/ CliStoreOpen

SpecCli == CliInit /\ [][CliNext]_vars

\* Cmd::Compact when SegmentReader::open fails on an input segment: the error is
\* returned before anything is written
CliCompactMissing ==
    /\ cmd.op = "none"
    /\ ncmds < MaxCmds
    /\ \E i \in DOMAIN CompactInputs(ManifestLoad(mjson)) :
          ~CanOpen(dirents, inodes, CompactInputs(ManifestLoad(mjson))[i].path)
    /\ cmd' = Ended("compact", "err")
    /\ ncmds' = ncmds + 1
    /\ UNCHANGED <<dirents, inodes, mjson, now, store, manVars, segVars, libVars>>

\* the paths the manifest lists
ListedPaths == {ManifestLoad(mjson).segments[i].path : i \in DOMAIN ManifestLoad(mjson).segments}

\* a segment file is removed from the directory by something other than the
\* commands (the commands never delete a segment); a reader that has it mapped
\* keeps its inode
EnvRemoveSegment ==
    /\ cmd.op = "none"
    /\ ListedPaths \subseteq DOMAIN dirents
    /\ \E p \in ListedPaths :
          dirents' = [n \in DOMAIN dirents \ {p} |-> dirents[n]]
    /\ UNCHANGED <<inodes, mjson, now, cmd, store, ncmds, manVars, segVars, libVars>>

\* the commands on a directory from which segment files can disappear
SpecRm == CliInit /\ [][CliNext \/ CliCompactMissing \/ EnvRemoveSegment]_vars

\* one byte of the data region of a listed segment file changes on disk (bit rot),
\* once, while every indexed record still passes verify_crc_at: the record that
\* holds the byte no longer matches its CRC
EnvDamageRecord ==
    /\ cmd.op = "none"
    /\ ListedPaths \subseteq DOMAIN dirents
    /\ \A p \in ListedPaths :
          LET f == inodes[dirents[p]] IN
          \A i \in DOMAIN Iter(f) : VerifyCrcAt(f, Iter(f)[i].off, Iter(f)[i].size)
    /\ \E p \in ListedPaths : \E j \in DOMAIN inodes[dirents[p]].body :
          inodes' = [inodes EXCEPT ![dirents[p]].body[j] = (@ + 1) % 256]
    /\ UNCHANGED <<dirents, mjson, now, cmd, store, ncmds, manVars, segVars, libVars>>

\* what a program other than the CLI writes into a Resolver segment through
\* SegmentWriter::add: an empty posting list, or a list under a key whose hash is 0
LibWriterCalls == {<<<<"add", <<1>>, encode_sorted_u64(<<>>)>>>>,
                   <<<<"add", <<4>>, encode_sorted_u64(<<1, 3, 5>>)>>>>}

\* a Resolver segment written through the library (SegmentWriter::create, add),
\* then finalized and added to the manifest like a segment of add-resolver
LibAddSegmentStart ==
    /\ cmd.op = "none"
    /\ ncmds < MaxCmds
    /\ \E cs \in LibWriterCalls :
          CliWriteTemp("lib-add", ResolverSegName(now.secs), INDEX_KIND_HASHTAB_V2, cs)
    /\ now' \in LaterTimes(now)
    /\ ncmds' = ncmds + 1
    /\ UNCHANGED <<mjson, store, manVars, segVars, libVars>>

\* the commands on a directory that also receives segments written through the library
SpecCmp == CliInit /\ [][CliNext \/ LibAddSegmentStart]_vars

\* the name under which the temp file of the n-th command stays in the directory
\* when the command dies (tempfile gives every writer a name of its own)
LeftoverTmp(n) == <<112, 114, 117, 95, 115, 101, 103, 95>> \o FormatHex(11 + n, 6)

\* what the temp file of a writer holds while finalize runs: nothing of the
\* blocks yet, the index block, the filter block, the header, all of it synced
PartialTempFiles(wr, f) ==
    LET s1 == StepIndex(wr, f)
        s2 == StepFilter(s1[1], s1[2], {})
        s3 == StepHeader(s2[1], s2[2])
    IN {f, s1[2], s2[2], s3, StepSync(s3)}

\* the process of add-resolver or compact dies (kill or power loss). Before the
\* rename of finalize its temp file stays, with the writes that were not synced
\* possibly lost; after it the segment is in place and manifest.json is as it
\* was (save_atomic changes it in its last step, the rename)
CliCrash ==
    /\ cmd.op = "write"
    /\ cmd' = Ended(cmd.name, "crash")
    /\ IF cmd.pc = "written"
       THEN /\ \E g \in PartialTempFiles(cmd.wr, inodes[dirents[TmpPath]]) : \E lose \in BOOLEAN :
                  inodes' = [inodes EXCEPT ![dirents[TmpPath]] = IF lose THEN Torn(g) ELSE g]
            /\ dirents' = Persist(dirents, TmpPath, LeftoverTmp(ncmds))
       ELSE UNCHANGED <<dirents, inodes>>
    /\ UNCHANGED <<mjson, now, store, ncmds, manVars, segVars, libVars>>

\* the commands on a directory, any of which may die at any step
SpecCrash == CliInit /\ [][CliNext \/ CliCrash]_vars

\* a directory: its entries, its files and its manifest.json
EmptyDir == [dirents |-> <<>>, inodes |-> <<>>, mjson |-> <<>>]

\* the directory after a whole add-resolver or compact command that writes the
\* calls cs into the segment `name`: create, the calls, finalize, the manifest update
DirWrite(D, name, index_kind, cs) ==
    LET w0 == [WriterCreate(name, "Resolver", CliBloomBits, CliBloomK)
                  EXCEPT !.index_kind = index_kind]
        st == ApplyCalls(<<w0, NewTempFile>>, cs, Len(cs))
        ino == Append(D.inodes, FinalizedFile(st[1], st[2], {}))
    IN [dirents |-> Persist(D.dirents @@ (TmpPath :> Len(ino)), TmpPath, name),
        inodes |-> ino,
        mjson |-> ManifestSave(AddSegment(ManifestLoad(D.mjson), name, "Resolver"))]

\* the commands that ran on a directory before the ones that are followed step
\* by step: add-resolver and compact, never promote
Preludes ==
    {<<>>, <<"add">>, <<"add", "add">>, <<"add", "compact">>, <<"add", "add", "add">>,
     <<"add", "add", "compact">>, <<"add", "compact", "add">>, <<"add", "compact", "compact">>}

\* the clock reading of the i-th command of a prelude: the first in the second
\* before FirstSecond, the others within FirstSecond
PreludeTime(i) == [secs |-> IF i = 1 THEN FirstSecond - 1 ELSE FirstSecond, nanos |-> i]

\* the ids of the i-th command of a prelude when it is an add-resolver (key <<1>>)
PreludeIds(i) == IF i = 1 THEN <<1, 3, 5>> ELSE <<3, 5, 7>>

\* the directory after the first n commands of the prelude h
RECURSIVE DirAfter(_, _)
DirAfter(h, n) ==
    IF n = 0 THEN EmptyDir
    ELSE LET D == DirAfter(h, n - 1)
             t == PreludeTime(n)
         IN IF h[n] = "add"
            THEN DirWrite(D, ResolverSegName(t.secs), INDEX_KIND_HASHTAB_V2,
                          AddResolverCalls(<<1>>, PreludeIds(n)))
            ELSE DirWrite(D, CompactSegName(t.secs, t.nanos, CHOOSE r \in RandU16 : TRUE),
                          INDEX_KIND_HASHTAB_V1,
                          CompactCalls(CompactMap(D.dirents, D.inodes, ManifestLoad(D.mjson))))

\* a directory on which add-resolver and compact commands have run
PreludeInit ==
    /\ ManIdle
    /\ SegIdle
    /\ LibIdle
    /\ \E h \in Preludes :
          /\ dirents = DirAfter(h, Len(h)).dirents
          /\ inodes = DirAfter(h, Len(h)).inodes
          /\ mjson = DirAfter(h, Len(h)).mjson
          /\ now \in IF h = <<>> THEN {[secs |-> FirstSecond, nanos |-> 0]}
                     ELSE LaterTimes(PreludeTime(Len(h)))
    /\ cmd = NoCmd /\ store = <<>> /\ ncmds = 1

\* the commands on a directory that has a history of add-resolver and compact commands
SpecPre == PreludeInit /\ [][CliNext]_vars

\* the directory right after Cmd::Init, the first command: an empty manifest.json
StoreInit ==
    /\ ManIdle
    /\ SegIdle
    /\ LibIdle
    /\ dirents = <<>> /\ inodes = <<>>
    /\ mjson = ManifestSave(ManifestLoad(<<>>))
    /\ now = [secs |-> FirstSecond, nanos |-> 0]
    /\ cmd = Ended("init", "ok") /\ store = <<>> /\ ncmds = 1

\* the commands that follow Cmd::Init, and the readers of the directory
SpecStore == StoreInit /\ [][CliNext]_vars

\* the commands on a directory whose segment files can be damaged
SpecDmg == StoreInit /\ [][CliNext \/ EnvDamageRecord]_vars

-----------------------------------------------------------------------------
(* The pure functions of postings.rs and the bounded record access of the     *)
(* reader, applied to arguments drawn from small sets.                        *)

\* every sequence over S of length at most n
SeqsUpTo(S, n) == UNION {[1..k -> S] : k \in 0..n}

\* ids given to the codec: around the one-byte and two-byte varint limits
CodecIds == {0, 1, 127, 128, 16384}

\* ids given to merge_sorted and intersect_sorted
ListIds == {1, 2, 3}

\* the segment value_at and verify_crc_at read: two records, the second one empty
ReadSegment ==
    BuildSegment("Resolver", INDEX_KIND_HASHTAB_V2, "Xor8", 16, 2,
                 <<<<"add", <<1>>, <<2, 1>>>>, <<"add", <<2>>, <<>>>>>>, {})

\* the files given to the reader: the segment, and the segment with one byte changed
ReadFiles == {ReadSegment, [ReadSegment EXCEPT !.body[1] = 3]}

\* the (off, size) given to value_at and verify_crc_at: inside the data region,
\* or reaching beyond the end of the file (the index and filter blocks are kept
\* structured, not as bytes, so ranges that end inside them are not drawn)
ReadRanges(f) ==
    {r \in (HDR_SIZE..(FileEnd(f) + 1)) \X (0..(Len(f.body) + 1)) :
        \/ r[1] + r[2] <= HDR_SIZE + Len(f.body)
        \/ r[1] + r[2] > FileEnd(f)}

FunInit ==
    /\ ManIdle
    /\ SegIdle
    /\ CliIdle
    /\ LibIdle

\* encode_sorted_u64, then decode_sorted_u64 on its output
AppCodec ==
    /\ app.fn = "none"
    /\ \E xs \in {q \in SeqsUpTo(CodecIds, MaxLen) :
                     \A i \in 1..(Len(q) - 1) : q[i] <= q[i + 1]} :
          app' = [fn |-> "codec", args |-> <<xs>>,
                  ret |-> <<encode_sorted_u64(xs),
                            decode_sorted_u64(encode_sorted_u64(xs))>>]
    /\ UNCHANGED <<savers, mjson0, loaded, pru, obs, manVars, segVars, cliVars>>

\* merge_sorted
AppMergeSorted ==
    /\ app.fn = "none"
    /\ \E a, b \in SeqsUpTo(ListIds, MaxLen) :
          app' = [fn |-> "merge_sorted", args |-> <<a, b>>, ret |-> merge_sorted(a, b)]
    /\ UNCHANGED <<savers, mjson0, loaded, pru, obs, manVars, segVars, cliVars>>

\* intersect_sorted
AppIntersectSorted ==
    /\ app.fn = "none"
    /\ \E a, b \in SeqsUpTo(ListIds, MaxLen) :
          app' = [fn |-> "intersect_sorted", args |-> <<a, b>>,
                  ret |-> intersect_sorted(a, b)]
    /\ UNCHANGED <<savers, mjson0, loaded, pru, obs, manVars, segVars, cliVars>>

\* SegmentReader::value_at: it returns, or it panics
AppValueAt ==
    /\ app.fn = "none"
    /\ \E f \in ReadFiles : \E r \in ReadRanges(f) :
          app' = [fn |-> "value_at", args |-> <<f, r[1], r[2]>>,
                  ret |-> IF ValueAtPanics(f, r[1], r[2])
                          THEN [panics |-> TRUE, val |-> <<>>]
                          ELSE [panics |-> FALSE, val |-> ValueAt(f, r[1], r[2])]]
    /\ UNCHANGED <<savers, mjson0, loaded, pru, obs, manVars, segVars, cliVars>>

\* SegmentReader::verify_crc_at
AppVerifyCrcAt ==
    /\ app.fn = "none"
    /\ \E f \in ReadFiles : \E r \in ReadRanges(f) :
          app' = [fn |-> "verify_crc_at", args |-> <<f, r[1], r[2]>>,
                  ret |-> VerifyCrcAt(f, r[1], r[2])]
    /\ UNCHANGED <<savers, mjson0, loaded, pru, obs, manVars, segVars, cliVars>>

\* one library function applied to any arguments
SpecFun ==
    FunInit /\ [][AppCodec \/ AppMergeSorted \/ AppIntersectSorted
                    \/ AppValueAt \/ AppVerifyCrcAt]_vars

-----------------------------------------------------------------------------
(* Manifest::save_atomic and Manifest::load on one directory. The directory is *)
(* `dirents` and `inodes`; the content of a manifest file is <<>> while it is  *)
(* empty, <<doc>> when it holds one document, and <<doc, old>> when doc was    *)
(* written over a longer document whose tail remains. Each saver calls         *)
(* save_atomic once; any of its steps can fail.                                *)

ManifestJson == "manifest.json"
ManifestTmp == "manifest.json.tmp"

\* the manifests given to save_atomic: empty, segments only, with active paths,
\* with active and archived paths
SaveManifests ==
    LET a == AddSegment(EmptyManifest, ResolverSegName(9), "Resolver")
        b == AddSegment(a, ResolverSegName(10), "Resolver")
    IN {EmptyManifest, [a EXCEPT !.active_paths = <<>>], a, PromoteResolverCompact(b)}

\* a process that has not called save_atomic yet
IdleSaver == [pc |-> "idle", m |-> EmptyManifest, fd |-> 0]

\* the directory before the savers start: manifest.json absent or holding a saved
\* document, manifest.json.tmp absent or left behind by an earlier failed save
SaveDirInit ==
    /\ ManIdle
    /\ SegIdle
    /\ mjson = <<>> /\ now = [secs |-> FirstSecond, nanos |-> 0]
    /\ cmd = NoCmd /\ store = <<>> /\ ncmds = 0
    /\ app = [fn |-> "none"] /\ pru = <<>> /\ obs = <<>>
    /\ loaded = <<>>
    /\ mjson0 \in {<<>>} \cup {ManifestSave(m) : m \in SaveManifests}
    /\ \E stale \in BOOLEAN :
          /\ inodes = (IF mjson0 = <<>> THEN <<>> ELSE <<mjson0>>)
                          \o (IF stale THEN <<<<>>>> ELSE <<>>)
          /\ dirents = [n \in (IF mjson0 = <<>> THEN {} ELSE {ManifestJson})
                                 \cup (IF stale THEN {ManifestTmp} ELSE {})
                          |-> IF n = ManifestJson THEN 1 ELSE Len(inodes)]

\* one process saves
SaveInit1 == SaveDirInit /\ savers = <<IdleSaver>>

\* two processes save
SaveInit2 == SaveDirInit /\ savers = <<IdleSaver, IdleSaver>>

\* a save that creates manifest.json itself and writes it in place
SaveCreateInPlace ==
    /\ \E p \in DOMAIN savers : \E m \in SaveManifests :
          /\ savers[p].pc = "idle"
          /\ IF ManifestJson \in DOMAIN dirents
             THEN /\ inodes' = [inodes EXCEPT ![dirents[ManifestJson]] = <<>>]
                  /\ dirents' = dirents
                  /\ savers' = [savers EXCEPT ![p] =
                                   [pc |-> "created", m |-> m, fd |-> dirents[ManifestJson]]]
             ELSE /\ inodes' = Append(inodes, <<>>)
                  /\ dirents' = dirents @@ (ManifestJson :> Len(inodes) + 1)
                  /\ savers' = [savers EXCEPT ![p] =
                                   [pc |-> "created", m |-> m, fd |-> Len(inodes) + 1]]
    /\ UNCHANGED <<mjson, now, cmd, store, ncmds, app, mjson0, loaded, pru, obs,
                   manVars, segVars>>

\* fs::File::create(&tmp): the file is created, or truncated when it exists
SaveCreate ==
    /\ \E p \in DOMAIN savers : \E m \in SaveManifests :
          /\ savers[p].pc = "idle"
          /\ IF ManifestTmp \in DOMAIN dirents
             THEN /\ inodes' = [inodes EXCEPT ![dirents[ManifestTmp]] = <<>>]
                  /\ dirents' = dirents
                  /\ savers' = [savers EXCEPT ![p] =
                                   [pc |-> "created", m |-> m, fd |-> dirents[ManifestTmp]]]
             ELSE /\ inodes' = Append(inodes, <<>>)
                  /\ dirents' = dirents @@ (ManifestTmp :> Len(inodes) + 1)
                  /\ savers' = [savers EXCEPT ![p] =
                                   [pc |-> "created", m |-> m, fd |-> Len(inodes) + 1]]
    /\ UNCHANGED <<mjson, now, cmd, store, ncmds, app, mjson0, loaded, pru, obs,
                   manVars, segVars>>

\* f.write_all(to_string_pretty(self)) at offset 0 of the file the saver created;
\* over a different document the tail of that document remains when it is longer
SaveWrite ==
    /\ \E p \in DOMAIN savers :
          /\ savers[p].pc = "created"
          /\ LET old == inodes[savers[p].fd]
                 new == ManifestSave(savers[p].m)
             IN \E tail \in (IF old = <<>> \/ old[1] = new[1] THEN {FALSE} ELSE BOOLEAN) :
                   inodes' = [inodes EXCEPT ![savers[p].fd] =
                                 IF tail THEN new \o <<old[1]>> ELSE new]
          /\ savers' = [savers EXCEPT ![p].pc = "written"]
    /\ UNCHANGED <<dirents, mjson, now, cmd, store, ncmds, app, mjson0, loaded, pru, obs,
                   manVars, segVars>>

\* f.sync_all(); drop(f)
SaveSync ==
    /\ \E p \in DOMAIN savers :
          /\ savers[p].pc = "written"
          /\ savers' = [savers EXCEPT ![p].pc = "synced"]
    /\ UNCHANGED <<dirents, inodes, mjson, now, cmd, store, ncmds, app, mjson0, loaded,
                   pru, obs, manVars, segVars>>

\* fs::rename(&tmp, &p): Ok, or Err when manifest.json.tmp is no longer there
SaveRename ==
    /\ \E p \in DOMAIN savers :
          /\ savers[p].pc = "synced"
          /\ IF ManifestTmp \in DOMAIN dirents
             THEN /\ dirents' = Persist(dirents, ManifestTmp, ManifestJson)
                  /\ savers' = [savers EXCEPT ![p].pc = "done"]
             ELSE /\ dirents' = dirents
                  /\ savers' = [savers EXCEPT ![p].pc = "failed"]
    /\ UNCHANGED <<inodes, mjson, now, cmd, store, ncmds, app, mjson0, loaded, pru, obs,
                   manVars, segVars>>

\* a step of save_atomic returns an I/O error: create, write_all, sync_all or rename
SaveFail ==
    /\ \E p \in DOMAIN savers : \E m \in SaveManifests :
          /\ savers[p].pc \in {"idle", "created", "written", "synced"}
          /\ savers[p].pc # "idle" => m = savers[p].m
          /\ savers' = [savers EXCEPT ![p].pc = "failed", ![p].m = m]
    /\ UNCHANGED <<dirents, inodes, mjson, now, cmd, store, ncmds, app, mjson0, loaded,
                   pru, obs, manVars, segVars>>

\* Manifest::load on the directory: the default manifest when manifest.json is
\* absent, a serde error when the file does not hold exactly one document
LoadDir ==
    IF ManifestJson \notin DOMAIN dirents
    THEN [ok |-> TRUE, m |-> ManifestLoad(<<>>)]
    ELSE IF Len(inodes[dirents[ManifestJson]]) = 1
    THEN [ok |-> TRUE, m |-> ManifestLoad(inodes[dirents[ManifestJson]])]
    ELSE [ok |-> FALSE, m |-> EmptyManifest]

\* a reader calls Manifest::load
SaveLoad ==
    /\ loaded' = <<LoadDir>>
    /\ UNCHANGED <<dirents, inodes, mjson, now, cmd, store, ncmds, app, savers, mjson0,
                   pru, obs, manVars, segVars>>

SaveNext == SaveCreate \/ SaveWrite \/ SaveSync \/ SaveRename \/ SaveFail \/ SaveLoad

\* one save_atomic with loads at any moment
SpecSave1 == SaveInit1 /\ [][SaveNext]_vars

\* two concurrent save_atomic with loads at any moment
SpecSave2 == SaveInit2 /\ [][SaveNext]_vars

-----------------------------------------------------------------------------
(* PruStore: the atom dictionaries and the fact log of one directory. `pru` is *)
(* the open store (atoms, facts), the two files it persists to (<<>> while     *)
(* absent) and the number of calls made; `obs` records what the calls          *)
(* returned.                                                                   *)

\* calls made on the store in one behaviour
MaxOps == 4

\* the names interned
PruNames == {"A", "B"}

\* a name that is empty after trim()
BlankNames == {" "}

Dicts == {"entities", "predicates", "literals"}

\* the ids the facts are built from
FactIds == 1..4

\* AtomTables::default
DefaultAtomTables == [next_id |-> 1, entities |-> <<>>, predicates |-> <<>>, literals |-> <<>>]

\* AtomTables::allocate_id: the id returned and the table afterwards (the
\* saturation of next_id at 2^64 - 1 is beyond the ids reached here)
allocate_id(a) == [id |-> a.next_id, atoms |-> [a EXCEPT !.next_id = a.next_id + 1]]

\* AtomTables::find_by_value: the ids an iteration of the map can stop at
find_by_value(map, value) == {id \in DOMAIN map : map[id] = value}

\* str::parse::<u64> of the decimal digits of a map key
RECURSIVE ParseDec(_)
ParseDec(d) ==
    IF d = <<>> THEN 0 ELSE ParseDec(SubSeq(d, 1, Len(d) - 1)) * 10 + (d[Len(d)] - 48)

\* serde_json of a HashMap<AtomId, String>: an object keyed by the decimal id
MapDocument(map) == {<<FormatDec(id), map[id]>> : id \in DOMAIN map}

MapParse(obj) ==
    [id \in {ParseDec(kv[1]) : kv \in obj} |->
        (CHOOSE kv \in obj : ParseDec(kv[1]) = id)[2]]

\* serde_json::to_writer_pretty(&self.atoms)
AtomsDocument(a) ==
    [next_id |-> a.next_id,
     entities |-> MapDocument(a.entities),
     predicates |-> MapDocument(a.predicates),
     literals |-> MapDocument(a.literals)]

\* PruStore::load_atoms: the default tables when atoms.json is absent; next_id 0 becomes 1
load_atoms(json) ==
    IF json = <<>> THEN DefaultAtomTables
    ELSE [next_id |-> IF json[1].next_id = 0 THEN 1 ELSE json[1].next_id,
          entities |-> MapParse(json[1].entities),
          predicates |-> MapParse(json[1].predicates),
          literals |-> MapParse(json[1].literals)]

\* serde_json::to_writer_pretty(&self.facts)
FactsDocument(facts) == [facts |-> facts]

\* PruStore::load_facts
load_facts(json) == IF json = <<>> THEN <<>> ELSE json[1].facts

\* Fact
Fact(s, p, o) ==
    [subject |-> s, predicate |-> p, object |-> o, source |-> <<>>, timestamp |-> <<>>]

\* every fact of the log, whatever its subject
facts_for_subject_all(facts, subj) == facts

\* PruStore::facts_for_subject on the fact log
facts_for_subject(facts, subj) == SelectSeq(facts, LAMBDA f : f.subject = subj)

\* PruStore::facts_for_subject_predicate on the fact log
facts_for_subject_predicate(facts, subj, pred) ==
    SelectSeq(facts, LAMBDA f : f.subject = subj /\ f.predicate = pred)

\* the tables after intern_entity("A"), intern_entity("B") and
\* intern_predicate("A") on a new store
PriorAtoms ==
    [next_id |-> 4, entities |-> (1 :> "A") @@ (2 :> "B"),
     predicates |-> (3 :> "A"), literals |-> <<>>]

\* the ids those three calls returned
PriorIds ==
    [d \in Dicts |-> [n \in PruNames |->
        IF d = "entities" THEN (IF n = "A" THEN {1} ELSE {2})
        ELSE IF d = "predicates" /\ n = "A" THEN {3} ELSE {}]]

\* PruStore::open on an empty directory, or on one an earlier store left
PruInit ==
    /\ ManIdle
    /\ SegIdle
    /\ CliIdle
    /\ app = [fn |-> "none"] /\ savers = <<>> /\ mjson0 = <<>> /\ loaded = <<>>
    /\ \E prior \in BOOLEAN :
          LET atoms_json == IF prior THEN <<AtomsDocument(PriorAtoms)>> ELSE <<>>
          IN /\ pru = [atoms |-> load_atoms(atoms_json), facts |-> load_facts(<<>>),
                       atoms_json |-> atoms_json, facts_json |-> <<>>, nops |-> 0]
             /\ obs = [ids |-> IF prior THEN PriorIds
                                ELSE [d \in Dicts |-> [n \in PruNames |-> {}]],
                       added |-> <<>>, addErr |-> FALSE, ioErr |-> FALSE,
                       last |-> [call |-> "none"]]

\* PruStore::intern_entity / intern_predicate / intern_literal on dictionary d:
\* a blank name is refused; a name already in the dictionary returns its id; a
\* new name is given the next id and inserted, then persist_atoms runs and may
\* fail (io_ok = FALSE), in which case the call returns the error
PruIntern(d) ==
    /\ pru.nops < MaxOps
    /\ \E name \in PruNames \cup BlankNames : \E io_ok \in BOOLEAN :
          IF name \in BlankNames
          THEN /\ io_ok
               /\ pru' = [pru EXCEPT !.nops = @ + 1]
               /\ obs' = [obs EXCEPT !.last = [call |-> "intern"]]
          ELSE IF find_by_value(pru.atoms[d], name) # {}
          THEN /\ io_ok
               /\ \E id \in find_by_value(pru.atoms[d], name) :
                     obs' = [obs EXCEPT !.ids[d][name] = @ \cup {id},
                                        !.last = [call |-> "intern"]]
               /\ pru' = [pru EXCEPT !.nops = @ + 1]
          ELSE LET al == allocate_id(pru.atoms)
                   atoms == [al.atoms EXCEPT ![d] = (al.id :> name) @@ @]
               IN IF io_ok
                  THEN /\ pru' = [pru EXCEPT !.atoms = atoms, !.nops = @ + 1,
                                              !.atoms_json = <<AtomsDocument(atoms)>>]
                       /\ obs' = [obs EXCEPT !.ids[d][name] = @ \cup {al.id},
                                              !.last = [call |-> "intern"]]
                  ELSE /\ pru' = [pru EXCEPT !.atoms = atoms, !.nops = @ + 1]
                       /\ obs' = [obs EXCEPT !.ioErr = TRUE, !.last = [call |-> "intern"]]
    /\ UNCHANGED <<app, savers, mjson0, loaded, manVars, segVars, cliVars>>

PruInternEntity == PruIntern("entities")

PruInternPredicate == PruIntern("predicates")

PruInternLiteral == PruIntern("literals")

\* what add_fact returned for a fact
AddFactCall(fact, ret) == [call |-> "add_fact", fact |-> fact, ret |-> ret]

\* ensure_atom_exists(subject), ensure_predicate_exists, ensure_object_exists all pass
FactAtomsExist(atoms, fact) ==
    /\ fact.subject \in DOMAIN atoms.entities
    /\ fact.predicate \in DOMAIN atoms.predicates
    /\ fact.object \in DOMAIN atoms.entities \cup DOMAIN atoms.literals

\* an add_fact that pushes and persists the fact before it looks at the atoms
PruAddFactUnchecked ==
    /\ pru.nops < MaxOps
    /\ \E s \in FactIds, p \in FactIds, o \in FactIds :
          LET facts == Append(pru.facts, Fact(s, p, o))
          IN /\ pru' = [pru EXCEPT !.facts = facts, !.nops = @ + 1,
                                    !.facts_json = <<FactsDocument(facts)>>]
             /\ IF FactAtomsExist(pru.atoms, Fact(s, p, o))
                THEN obs' = [obs EXCEPT !.added = Append(@, Fact(s, p, o)),
                                        !.last = AddFactCall(Fact(s, p, o), "Ok")]
                ELSE obs' = [obs EXCEPT !.addErr = TRUE,
                                        !.last = AddFactCall(Fact(s, p, o), "AtomNotFound")]
    /\ UNCHANGED <<app, savers, mjson0, loaded, manVars, segVars, cliVars>>

\* PruStore::add_fact: the subject must be an entity, the predicate a predicate,
\* the object an entity or a literal; the fact is pushed, then persist_facts
\* runs and may fail
PruAddFact ==
    /\ pru.nops < MaxOps
    /\ \E s \in FactIds, p \in FactIds, o \in FactIds, io_ok \in BOOLEAN :
          IF ~FactAtomsExist(pru.atoms, Fact(s, p, o))
          THEN /\ io_ok
               /\ pru' = [pru EXCEPT !.nops = @ + 1]
               /\ obs' = [obs EXCEPT !.addErr = TRUE,
                                      !.last = AddFactCall(Fact(s, p, o), "AtomNotFound")]
          ELSE LET facts == Append(pru.facts, Fact(s, p, o))
               IN IF io_ok
                  THEN /\ pru' = [pru EXCEPT !.facts = facts, !.nops = @ + 1,
                                              !.facts_json = <<FactsDocument(facts)>>]
                       /\ obs' = [obs EXCEPT !.added = Append(@, Fact(s, p, o)),
                                              !.last = AddFactCall(Fact(s, p, o), "Ok")]
                  ELSE /\ pru' = [pru EXCEPT !.facts = facts, !.nops = @ + 1]
                       /\ obs' = [obs EXCEPT !.addErr = TRUE,
                                              !.last = AddFactCall(Fact(s, p, o), "Io")]
    /\ UNCHANGED <<app, savers, mjson0, loaded, manVars, segVars, cliVars>>

\* the store is dropped and PruStore::open runs on the same directory
PruReopen ==
    /\ pru.nops < MaxOps
    /\ pru' = [pru EXCEPT !.atoms = load_atoms(pru.atoms_json),
                          !.facts = load_facts(pru.facts_json),
                          !.nops = @ + 1]
    /\ obs' = [obs EXCEPT !.last = [call |-> "open"]]
    /\ UNCHANGED <<app, savers, mjson0, loaded, manVars, segVars, cliVars>>

PruNext ==
    PruInternEntity \/ PruInternPredicate \/ PruInternLiteral \/ PruAddFact \/ PruReopen

SpecPru == PruInit /\ [][PruNext]_vars

-----------------------------------------------------------------------------
(* Properties of the manifest operations *)

\* paths of the records of kind Resolver
ResolverPaths(m) == {m.segments[i].path : i \in {j \in 1..Len(m.segments) : m.segments[j].kind = "Resolver"}}

\* the lexicographically greatest path of a non-empty set of paths
GreatestPath(S) == CHOOSE p \in S : \A q \in S : LexLeq(q, p)

\* the winner a promotion of m is to pick
Winner(m) ==
    LET compacts == {p \in ResolverPaths(m) : StartsWith(p, ResolverCompactPrefix)}
    IN IF compacts # {} THEN GreatestPath(compacts) ELSE GreatestPath(ResolverPaths(m))

\* the non-resolver records of m that are active, as paths, in manifest order
ActiveNonResolverPaths(m) ==
    LET act == Range(ActiveSegmentPaths(m))
        recs == SelectSeq(m.segments, LAMBDA s : s.kind # "Resolver" /\ s.path \in act)
    IN [i \in 1..Len(recs) |-> recs[i].path]

\* the positions of `segments` that are active and of kind Resolver
ActiveResolverRecs(m) ==
    {i \in 1..Len(m.segments) :
        m.segments[i].kind = "Resolver" /\ m.segments[i].path \in Range(ActiveSegmentPaths(m))}

\* C5: a path that active_segment_paths() returned before an add_segment call is
\* still returned after it (legacy manifests, whose active_paths is empty, included).
C5_AddSegmentKeepsActive ==
    lastOp = "add" => Range(ActiveSegmentPaths(mprev)) \subseteq Range(ActiveSegmentPaths(man))

C8_OneActiveResolver ==
    (lastOp = "promote" /\ lastRet = 1) => Cardinality(ActiveResolverRecs(man)) = 1

C39_PromotionFrame ==
    lastOp = "promote" =>
        /\ man.segments = mprev.segments
        /\ lastRet = 0 <=> ResolverPaths(mprev) = {}
        /\ lastRet = 0 => /\ man.active_paths = mprev.active_paths
                          /\ man.archived_paths = mprev.archived_paths
        /\ lastRet # 0 => lastRet = 1

\* a promotion of a manifest with segments and active paths but no Resolver
\* segment returned 0
C39_Witness ==
    /\ lastOp = "promote" /\ lastRet = 0
    /\ Len(mprev.segments) >= 2 /\ mprev.active_paths # <<>>

\* a promotion of a manifest with several Resolver segments returned 1 and
\* rewrote active_paths and archived_paths
C39_WitnessOne ==
    /\ lastOp = "promote" /\ lastRet = 1
    /\ Cardinality(ResolverPaths(mprev)) >= 2
    /\ man.active_paths # mprev.active_paths /\ man.archived_paths # mprev.archived_paths

-----------------------------------------------------------------------------
(* Properties of the segment writer and reader *)

\* the finalized segment at the final path, once finalize has returned
Published == w.pc = "done"

\* the values passed to add for a key
AddedValues(key) == {calls[i][3] : i \in {j \in 1..Len(calls) : calls[j][1] = "add" /\ calls[j][2] = key}}

\* the live rows of the index that match a key: same h, and same fp under V2
MatchingSlots(f, key) ==
    LET blk == IndexAt(f)[1] IN
    {i \in 0..(blk.cap - 1) :
        /\ blk.rows[i].h # 0
        /\ blk.rows[i].h = h64(key)
        /\ blk.kind = INDEX_KIND_HASHTAB_V2 => blk.rows[i].fp = fp64(key)}

\* C1: in a segment written with the V2 index by add calls and finalized, get(key)
\* returns the value bytes passed to add for that key, for every key added.
C1_IndexCompleteness ==
    (Published /\ w.index_kind = INDEX_KIND_HASHTAB_V2
        /\ \A i \in 1..Len(calls) : calls[i][1] = "add") =>
        \A i \in 1..Len(calls) :
            LET got == Get(fs[FinalPath], calls[i][2]) IN
            got # <<>> /\ got[1] \in AddedValues(calls[i][2])

\* C2: in a finalized segment, when the filter reports a key absent, no live index
\* slot matches that key.
C2_FilterSoundness ==
    Published =>
        \A key \in Keys :
            ~FilterAllowsKey(fs[FinalPath], key) => MatchingSlots(fs[FinalPath], key) = {}

\* a complete segment file: valid magic, version and kind, header offsets that
\* point at the index and filter blocks, nothing missing from its tail, all synced
Complete(f) ==
    /\ ReaderOpens(f)
    /\ f.hdr.data_off = HDR_SIZE
    /\ IndexAt(f) # <<>>
    /\ FilterAt(f) # <<>>
    /\ f.hdr.footer_off = FileEnd(f)
    /\ f.synced

\* C3: at every step of create, add, finalize, and after a crash at any step, the
\* final path holds what it held before the writer was created or the complete
\* new file; a writer that has not finished finalize leaves nothing but its temp file.
C3_AtomicPublish ==
    /\ \A n \in DOMAIN fs \ {TmpPath} :
          \/ n \in DOMAIN fs0 /\ fs[n] = fs0[n]
          \/ /\ n = FinalPath /\ Published /\ Complete(fs[n])
             /\ fs[n].idx[1] = IndexBlock(w)
             /\ Len(fs[n].body) = SumBytes([i \in 1..Len(calls) |-> Len(calls[i][3]) + 4])
    /\ ~Published => DOMAIN fs \ {TmpPath} = DOMAIN fs0
    /\ Published => TmpPath \notin DOMAIN fs

\* C3 witness: the writer was killed between add and finalize's publish, after it
\* had written the index; the temp file is left and the final path holds the old file.
C3_Witness ==
    /\ w.pc = "crashed"
    /\ Len(calls) >= 1
    /\ TmpPath \in DOMAIN fs
    /\ fs[TmpPath].idx # <<>>
    /\ ~Complete(fs[TmpPath])
    /\ FinalPath \in DOMAIN fs

\* C11: the writer refuses an entry whose primary hash is zero, through add or
\* add_hashed: no item of a writer has h = 0.
C11_ZeroHashRefused ==
    w.pc # "none" => \A i \in DOMAIN w.items : w.items[i][1] # 0

\* C12: in a finalized segment with the Bloom filter, whatever bloom_bits and
\* bloom_k were passed to create, every key passed to add is reported present by
\* the filter of the reopened segment.
C12_LegacyBloomAgreement ==
    (Published /\ w.filter_kind = "Bloom") =>
        \A i \in DOMAIN calls :
            calls[i][1] = "add" => FilterAllowsKey(fs[FinalPath], calls[i][2])

\* c is a power of two
IsPowerOfTwo(c) == \E e \in 0..16 : c = 2 ^ e

\* the index block of the finalized segment and the number of its live entries
PublishedIndex == IndexAt(fs[FinalPath])[1]
LiveEntries == Len(Iter(fs[FinalPath]))

\* the calls made on the writer are add_hashed calls with distinct non-zero hashes
HashedDistinctNonZero ==
    /\ \A i \in 1..Len(calls) : calls[i][1] = "hashed" /\ calls[i][2] # 0
    /\ \A i, j \in 1..Len(calls) : i # j => calls[i][2] # calls[j][2]

\* C35: in a segment written with the V1 index and the XOR8 filter by add_hashed
\* calls with distinct non-zero hashes, get(key) on the finalized file returns v
\* for every add_hashed(h, v) and every key whose hash is h.
C35_HashedRetrievable ==
    (Published /\ w.index_kind = INDEX_KIND_HASHTAB_V1 /\ w.filter_kind = "Xor8"
        /\ HashedDistinctNonZero) =>
        \A i \in 1..Len(calls) : \A key \in Keys :
            h64(key) = calls[i][2] => Get(fs[FinalPath], key) = <<calls[i][3]>>

\* two hashes with the same home slot were added with different values, and the
\* key of the second, stored after a wrap of the probe, is returned its value
C35_Witness ==
    /\ Published /\ w.index_kind = INDEX_KIND_HASHTAB_V1 /\ w.filter_kind = "Xor8"
    /\ HashedDistinctNonZero /\ Len(calls) = 2
    /\ calls[1][3] # calls[2][3]
    /\ calls[1][2] % PublishedIndex.cap = calls[2][2] % PublishedIndex.cap
    /\ \E key \in Keys : h64(key) = calls[2][2] /\ Get(fs[FinalPath], key) = <<calls[2][3]>>

\* the slots the probe of a key visits, in order: home, home + 1, ... (mod cap)
ProbePath(blk, key) == [j \in 1..blk.cap |-> (h64(key) + j - 1) % blk.cap]

\* the row matches the key for get
RowMatches(blk, row, key) ==
    /\ row.h = h64(key)
    /\ blk.kind = INDEX_KIND_HASHTAB_V2 => row.fp = fp64(key)

\* C36: the insertion loop of index construction always finds an empty slot (one
\* is left before each insertion), and on a finalized index get examines at
\* most cap slots for any key and returns none at the first empty slot.
C36_ProbeTermination ==
    /\ w.pc # "none" =>
          \A k \in 0..(Len(w.items) - 1) :
              LET cap == IndexCap(Len(w.items))
                  t == InsertItems(EmptyTable(cap), w.items, k, cap, w.index_kind)
              IN \E i \in 0..(cap - 1) : t[i].h = 0
    /\ Published =>
          LET blk == PublishedIndex IN
          \A key \in Keys :
              /\ ProbeGetSteps(blk, key, h64(key) % blk.cap, blk.cap) <= blk.cap
              /\ \A j \in 1..blk.cap :
                    (/\ blk.rows[ProbePath(blk, key)[j]].h = 0
                     /\ \A i \in 1..(j - 1) :
                           LET row == blk.rows[ProbePath(blk, key)[i]]
                           IN row.h # 0 /\ ~RowMatches(blk, row, key))
                    => /\ ProbeGet(fs[FinalPath], blk, key, h64(key) % blk.cap, blk.cap) = <<>>
                       /\ ProbeGetSteps(blk, key, h64(key) % blk.cap, blk.cap) = j

\* two items with the same home slot were inserted (the second after a probe),
\* and the probe of another key passed both before it stopped at an empty slot
C36_Witness ==
    /\ Published /\ Len(w.items) = 2 /\ LiveEntries = 2
    /\ w.items[1][1] % PublishedIndex.cap = w.items[2][1] % PublishedIndex.cap
    /\ \E key \in Keys :
          /\ ProbeGetSteps(PublishedIndex, key, h64(key) % PublishedIndex.cap,
                           PublishedIndex.cap) = 3
          /\ ProbeGet(fs[FinalPath], PublishedIndex, key, h64(key) % PublishedIndex.cap,
                      PublishedIndex.cap) = <<>>

\* the entry iter yields for an item the writer recorded
ItemEntry(it) == IF w.index_kind = INDEX_KIND_HASHTAB_V1 THEN RowV1(it) ELSE RowV2(it)

\* C37: on a segment produced by n add / add_hashed calls and finalize, iter
\* yields exactly n entries, one per call, with the h, off and size the writer
\* recorded (and the fingerprint under V2).
C37_IterComplete ==
    Published =>
        /\ Len(Iter(fs[FinalPath])) = Len(calls)
        /\ Range(Iter(fs[FinalPath])) = {ItemEntry(w.items[i]) : i \in 1..Len(w.items)}

\* the same, for the segments whose calls all carry a non-zero hash
C37_IterCompleteNonZero ==
    (Published /\ \A i \in 1..Len(w.items) : w.items[i][1] # 0) => C37_IterComplete

\* C19 as stated: the capacity of a finalized segment with n live entries is a
\* power of two, at least ceil(1.25 * n) + 1, and n / cap is below 0.8.
C19_CapacityCeil ==
    Published =>
        /\ IsPowerOfTwo(PublishedIndex.cap)
        /\ PublishedIndex.cap >= (5 * LiveEntries + 3) \div 4 + 1
        /\ 5 * LiveEntries < 4 * PublishedIndex.cap

\* C19 amended: the capacity of a finalized segment with n live entries is a
\* power of two, at least floor(1.25 * n) + 1, and n / cap is below 0.8.
C19_IndexCapacity ==
    Published =>
        /\ IsPowerOfTwo(PublishedIndex.cap)
        /\ PublishedIndex.cap >= (5 * LiveEntries) \div 4 + 1
        /\ 5 * LiveEntries < 4 * PublishedIndex.cap

\* C19 witness: a finalized segment with one live entry in a table of two slots
C19_Witness ==
    Published /\ LiveEntries = 1 /\ PublishedIndex.cap = 2

\* C20: in a finalized segment every entry yielded by iter has size >= 4 and
\* off >= 48, its record ends at or before the index offset (so inside the file),
\* its crc verifies, and the records of distinct entries do not overlap.
C20_RecordIntegrity ==
    Published =>
        LET f == fs[FinalPath]
            es == Iter(f)
        IN /\ \A i \in DOMAIN es :
                 /\ es[i].size >= 4
                 /\ es[i].off >= HDR_SIZE
                 /\ es[i].off + es[i].size <= f.hdr.index_off
                 /\ es[i].off + es[i].size <= FileEnd(f)
                 /\ VerifyCrcAt(f, es[i].off, es[i].size)
           /\ \A i, j \in DOMAIN es :
                 i # j => \/ es[i].off + es[i].size <= es[j].off
                          \/ es[j].off + es[j].size <= es[i].off

\* C20 witness: a finalized segment holding two records, written by add and add_hashed
C20_Witness ==
    /\ Published
    /\ Len(Iter(fs[FinalPath])) = 2
    /\ \E i, j \in DOMAIN calls : calls[i][1] = "add" /\ calls[j][1] = "hashed"

-----------------------------------------------------------------------------
(* Properties of Manifest::save_atomic and Manifest::load *)

\* manifest.json as it is in the directory (<<>> while absent)
ManifestJsonNow ==
    IF ManifestJson \in DOMAIN dirents THEN <<inodes[dirents[ManifestJson]]>> ELSE <<>>

\* manifest.json as it was before the savers started
ManifestJsonBefore == IF mjson0 = <<>> THEN <<>> ELSE <<mjson0>>

\* C21: when save_atomic has failed at any step (create, write_all, sync_all or
\* rename), manifest.json still holds exactly the document saved before, and a
\* load returns the old manifest.
C21_FailedSave ==
    \A p \in DOMAIN savers :
        savers[p].pc = "failed" =>
            /\ ManifestJsonNow = ManifestJsonBefore
            /\ LoadDir = [ok |-> TRUE, m |-> ManifestLoad(mjson0)]

\* a save of a different manifest failed after its document was written to
\* manifest.json.tmp, and the load that followed returned the old manifest
C21_Witness ==
    /\ savers # <<>> /\ savers[1].pc = "failed"
    /\ mjson0 # <<>> /\ mjson0 # ManifestSave(savers[1].m)
    /\ ManifestTmp \in DOMAIN dirents
    /\ inodes[dirents[ManifestTmp]] = ManifestSave(savers[1].m)
    /\ loaded = <<[ok |-> TRUE, m |-> ManifestLoad(mjson0)]>>

\* C23: while one or more processes are inside save_atomic on the same directory,
\* every load returns a complete document: a manifest given to one of the
\* save_atomic calls or the manifest saved before, never an error from an empty,
\* truncated or mixed file.
C23_LoadComplete ==
    loaded # <<>> =>
        /\ loaded[1].ok
        /\ loaded[1].m \in {savers[p].m : p \in {q \in DOMAIN savers : savers[q].pc # "idle"}}
                               \cup {ManifestLoad(mjson0)}

\* C24: after save_atomic(m) a load returns m: the same segments, active_paths and
\* archived_paths, also when a list is empty and left out of the document; a load
\* from a directory without manifest.json returns the empty manifest.
C24_ManifestRoundTrip ==
    /\ \A p \in DOMAIN savers :
          (savers[p].pc = "done" /\ Len(savers) = 1) =>
              LoadDir = [ok |-> TRUE, m |-> savers[p].m]
    /\ (savers # <<>> /\ ManifestJson \notin DOMAIN dirents) =>
              LoadDir = [ok |-> TRUE, m |-> EmptyManifest]

\* a manifest with segments and no active_paths was saved and loaded back
C24_Witness ==
    /\ savers # <<>> /\ savers[1].pc = "done"
    /\ savers[1].m.segments # <<>> /\ savers[1].m.active_paths = <<>>
    /\ loaded = <<[ok |-> TRUE, m |-> savers[1].m]>>

\* a manifest with active and archived paths was saved and loaded back
C24_WitnessPaths ==
    /\ savers # <<>> /\ savers[1].pc = "done"
    /\ savers[1].m.active_paths # <<>> /\ savers[1].m.archived_paths # <<>>
    /\ loaded = <<[ok |-> TRUE, m |-> savers[1].m]>>

\* a load found no manifest.json
C24_WitnessAbsent ==
    /\ savers # <<>> /\ ManifestJson \notin DOMAIN dirents
    /\ loaded = <<[ok |-> TRUE, m |-> EmptyManifest]>>

-----------------------------------------------------------------------------
(* Properties of the atom dictionaries and the fact log *)

\* the (dictionary, name) pairs
AtomPairs == Dicts \X PruNames

\* C29: over any sequence of intern_entity, intern_predicate and intern_literal
\* calls, reopening included, every returned id is at least 1, a name interned
\* again in the same dictionary gets the same id, and two different
\* (dictionary, name) pairs never get the same id.
C29_AtomIds ==
    /\ \A a \in AtomPairs : \A id \in obs.ids[a[1]][a[2]] : id >= 1
    /\ \A a \in AtomPairs : Cardinality(obs.ids[a[1]][a[2]]) <= 1
    /\ \A a, b \in AtomPairs : a # b => obs.ids[a[1]][a[2]] \cap obs.ids[b[1]][b[2]] = {}

\* the same, for the behaviours in which no persist_atoms has failed
C29_AtomIdsNoIoError == obs # <<>> /\ ~obs.ioErr => C29_AtomIds

\* C30: when every add_fact call so far has succeeded, facts_for_subject(s) is
\* the added facts with subject s in the order they were added, and
\* facts_for_subject_predicate(s, p) those with subject s and predicate p.
C30_FactQueries ==
    (obs # <<>> /\ ~obs.addErr) =>
        \A s \in FactIds :
            /\ facts_for_subject(pru.facts, s)
                  = SelectSeq(obs.added, LAMBDA f : f.subject = s)
            /\ \A p \in FactIds :
                  facts_for_subject_predicate(pru.facts, s, p)
                      = SelectSeq(obs.added, LAMBDA f : f.subject = s /\ f.predicate = p)

\* facts of two subjects and two predicates were added, every call succeeding,
\* and the queries for one subject leave some of them out
C30_Witness ==
    /\ obs # <<>> /\ ~obs.addErr
    /\ Len(obs.added) >= 3
    /\ \E s \in FactIds, p \in FactIds :
          /\ Len(facts_for_subject_predicate(pru.facts, s, p)) >= 1
          /\ Len(facts_for_subject_predicate(pru.facts, s, p))
                < Len(facts_for_subject(pru.facts, s))
          /\ Len(facts_for_subject(pru.facts, s)) < Len(pru.facts)

\* C31: add_fact returns AtomNotFound when the subject is not a known entity,
\* the predicate is not a known predicate, or the object is neither a known
\* entity nor a known literal, and then the fact log is unchanged in memory and
\* on disk.
C31_AddFactValidation ==
    [][(pru'.nops # pru.nops /\ obs'.last.call = "add_fact")
          => /\ ~FactAtomsExist(pru.atoms, obs'.last.fact)
                    => obs'.last.ret = "AtomNotFound"
             /\ obs'.last.ret = "AtomNotFound"
                    => /\ ~FactAtomsExist(pru.atoms, obs'.last.fact)
                       /\ pru'.facts = pru.facts
                       /\ pru'.facts_json = pru.facts_json]_vars

\* an add_fact with a known subject and predicate and an unknown object was
\* refused on a store that already holds a fact
C31_Witness ==
    /\ obs # <<>> /\ obs.last.call = "add_fact" /\ obs.last.ret = "AtomNotFound"
    /\ obs.last.fact.subject \in DOMAIN pru.atoms.entities
    /\ obs.last.fact.predicate \in DOMAIN pru.atoms.predicates
    /\ pru.facts # <<>> /\ pru.facts_json = <<FactsDocument(pru.facts)>>

-----------------------------------------------------------------------------
(* Properties of a failed finalize *)

\* C22: once finalize has returned an error, whichever step failed, the final path
\* holds exactly what it held before the writer was created and the temp file of
\* the writer is no longer in the directory.
C22_FailedWriter ==
    w.pc \in {"failed", "persist_failed"} =>
        /\ (FinalPath \in DOMAIN fs) = (FinalPath \in DOMAIN fs0)
        /\ FinalPath \in DOMAIN fs => fs[FinalPath] = fs0[FinalPath]
        /\ TmpPath \notin DOMAIN fs

-----------------------------------------------------------------------------
(* Properties of the CLI commands *)

\* the strictly increasing sequence of the elements of the set S
SortedSeqOf(S) ==
    CHOOSE q \in [1..Cardinality(S) -> S] : \A i, j \in DOMAIN q : i < j => q[i] < q[j]

\* the index entries of the Resolver segments listed in the manifest, with their files
InputEntries ==
    LET recs == CompactInputs(ManifestLoad(mjson)) IN
    UNION { { <<inodes[dirents[recs[i].path]], e>> :
                e \in Range(Iter(inodes[dirents[recs[i].path]])) } : i \in DOMAIN recs }

\* the ids the input segments store for hash h
InputIds(h) ==
    UNION { Range(decode_sorted_u64(ValueAt(fe[1], fe[2].off, fe[2].size)[1])) :
              fe \in {x \in InputEntries : x[2].h = h} }

\* a compaction has published its segment and has not yet saved the manifest
CompactPublished ==
    /\ cmd.op = "write"
    /\ cmd.pc = "published"
    /\ StartsWith(cmd.seg_name, ResolverCompactPrefix)

\* the posting list the compacted segment stores for hash h (<<>> when it has no entry)
CompactedList(h) ==
    LET f == inodes[dirents[cmd.seg_name]]
        es == {e \in Range(Iter(f)) : e.h = h}
    IN IF es = {} THEN <<>>
       ELSE LET e == CHOOSE x \in es : TRUE
            IN decode_sorted_u64(ValueAt(f, e.off, e.size)[1])

\* C4: compaction merges and dedupes: for every key hash h present in the input
\* Resolver segments, the posting list stored for h in the compacted segment is
\* the strictly increasing, duplicate-free union of the ids the inputs store for h.
C4_CompactionMergesAndDedupes ==
    CompactPublished =>
        \A h \in {fe[2].h : fe \in InputEntries} :
            CompactedList(h) = SortedSeqOf(InputIds(h))

\* C6: published segments are immutable: a segment file published at a path stays
\* at that path with the same contents under every step of add-resolver, compact
\* and promote, two add-resolver commands in one clock second included.
C6_PublishedSegmentsImmutable ==
    [][\A n \in DOMAIN dirents \ {TmpPath} :
          /\ n \in DOMAIN dirents'
          /\ inodes'[dirents'[n]] = inodes[dirents[n]]]_vars

\* C10: reader snapshot isolation: a store that was opened keeps returning, for
\* every key, what it returned when it was opened, whatever commands run later;
\* and from the start of a writing command until its manifest save, a store
\* opened at that moment resolves every key as before the command started (the
\* results of every mode are computed from the per-key results of resolve).
C10_ReaderSnapshotIsolation ==
    /\ store # <<>> => ResolveAll(inodes, store[1].readers) = store[1].seen
    /\ cmd.op = "write" => FreshResults = cmd.pre

\* the hashes the index entries of the listed Resolver segments carry
InputHashes == {fe[2].h : fe \in InputEntries}

\* the live index entries of the compacted segment
CompactedEntries == Iter(inodes[dirents[cmd.seg_name]])

\* C38: compaction output is hash-deduplicated: the compacted segment (V1 index,
\* XOR8 filter, kind Resolver) holds exactly one live index entry for each hash
\* that has a non-empty posting list in some Resolver segment listed in the
\* manifest, and no other entry; entries whose list decodes to empty are skipped.
C38_CompactionHashDeduplicated ==
    CompactPublished =>
        LET f == inodes[dirents[cmd.seg_name]]
            live == {h \in InputHashes : InputIds(h) # {}}
        IN /\ ReaderKind(f) = "Resolver"
           /\ IndexAt(f)[1].kind = INDEX_KIND_HASHTAB_V1
           /\ FilterAt(f)[1].tag = FILTER_TAG_XOR8
           /\ {CompactedEntries[i].h : i \in DOMAIN CompactedEntries} = live
           /\ Len(CompactedEntries) = Cardinality(live)

\* C38 witness: a compaction has published its segment from inputs that hold an
\* entry with an empty list under one hash and a non-empty list under another
C38_Witness ==
    /\ CompactPublished
    /\ \E h \in InputHashes : InputIds(h) = {}
    /\ \E h \in InputHashes : InputIds(h) # {}

\* C38 witness: two listed segments hold a list under the same hash and the
\* compacted segment holds one entry
C38_WitnessMerged ==
    /\ CompactPublished
    /\ Cardinality(InputEntries) > 1
    /\ Len(CompactedEntries) = 1

\* what resolve_with_mode(Dedup, [key]) of a ResolverStore opened now returns
FreshDedup(key) == ResolveDedup(inodes, StoreOpen(dirents, inodes, mjson), <<key>>)

\* C32: durability of postings: after any sequence of add-resolver, compact and
\* promote commands, every id that an add-resolver command added under a key is
\* in resolve_with_mode(Dedup, [key]) of a ResolverStore opened then; no command
\* makes a previously added posting unresolvable.
C32_PostingsDurable ==
    cmd.op = "none" => \A key \in DOMAIN obs : obs[key] \subseteq Range(FreshDedup(key))

\* the keys with a hash no key given to add-resolver shares
UncollidedKeys == {k \in Keys : \A j \in CliKeys : h64(j) = h64(k) => j = k}

\* C33: compact-then-promote is transparent: from a directory in which every
\* listed Resolver segment is active, compact followed by promote leaves
\* resolve_with_mode(Dedup, [key]) of a freshly opened ResolverStore unchanged for
\* every key (keys with distinct hashes, a clock that does not go backwards).
C33_CompactPromoteTransparent ==
    [][(/\ cmd.op = "none" /\ cmd.last = "compact" /\ cmd.result = "ok"
        /\ cmd.all_active
        /\ cmd'.op = "none" /\ cmd'.last = "promote")
       => \A key \in UncollidedKeys :
             ResolveDedup(inodes', StoreOpen(dirents', inodes', mjson'), <<key>>)
                = dedup(merge_sorted(<<>>, cmd.pre[key]))]_vars

\* C33 while the second of the clock keeps its decimal length: the compaction
\* and the promotion both run within FirstSecond
C33_TransparentSameLength ==
    [][(/\ cmd.op = "none" /\ cmd.last = "compact" /\ cmd.result = "ok"
        /\ cmd.all_active
        /\ now.secs = FirstSecond
        /\ cmd'.op = "none" /\ cmd'.last = "promote")
       => \A key \in UncollidedKeys :
             ResolveDedup(inodes', StoreOpen(dirents', inodes', mjson'), <<key>>)
                = dedup(merge_sorted(<<>>, cmd.pre[key]))]_vars

\* the segment records of a manifest.json
SavedSegments(json) == ManifestLoad(json).segments

\* every path the saved manifest lists names a complete segment file
ListedComplete ==
    \A p \in ListedPaths : p \in DOMAIN dirents /\ Complete(inodes[dirents[p]])

\* C34: published before listed: in every reachable state, the states after a
\* crash at any step of add-resolver or compact included, every segment path
\* listed in the saved manifest.json names a completely published segment file;
\* a name is added to the manifest only after the finalize of its segment.
C34_PublishedBeforeListed ==
    /\ []ListedComplete
    /\ [][Len(SavedSegments(mjson')) > Len(SavedSegments(mjson))
            => /\ cmd.op = "write"
               /\ cmd.pc = "published"
               /\ SavedSegments(mjson')[Len(SavedSegments(mjson'))].path = cmd.seg_name
               /\ cmd.seg_name \in DOMAIN dirents
               /\ Complete(inodes[dirents[cmd.seg_name]])]_vars

\* C34 witness: a command has died after its finalize and before its manifest
\* save: its segment is on disk and not listed, next to a listed segment
C34_Witness ==
    /\ cmd.op = "none" /\ cmd.result = "crash"
    /\ ListedPaths # {}
    /\ \E n \in DOMAIN dirents :
          /\ n \notin ListedPaths
          /\ StartsWith(n, ResolverPrefix)
          /\ Complete(inodes[dirents[n]])

\* C34 witness: a command has died inside finalize: what is left of its temp file
\* is not a complete segment, and a segment is listed
C34_WitnessTemp ==
    /\ cmd.op = "none" /\ cmd.result = "crash"
    /\ ListedPaths # {}
    /\ \E n \in DOMAIN dirents : ~StartsWith(n, ResolverPrefix) /\ ~Complete(inodes[dirents[n]])

\* the readers of the opened store and the posting list each stores for a key
\* (empty when get returns None)
StoreReaders == store[1].readers

StoredLists(key) ==
    [r \in DOMAIN StoreReaders |->
        LET got == Get(ReaderFile(inodes, StoreReaders[r]), key)
        IN IF got = <<>> THEN <<>> ELSE decode_sorted_u64(got[1])]

\* how many times x occurs in a sequence
Occurrences(seq, x) == Cardinality({i \in DOMAIN seq : seq[i] = x})

\* every id stored for the keys of a key list
StoredIds(keys) ==
    UNION { UNION { Range(StoredLists(keys[n])[r]) : r \in DOMAIN StoreReaders } :
            n \in DOMAIN keys }

NonDecreasing(seq) == \A i, j \in DOMAIN seq : i < j => seq[i] <= seq[j]
StrictlyIncreasing(seq) == \A i, j \in DOMAIN seq : i < j => seq[i] < seq[j]

\* C13: for an opened store, resolve(key), and Union mode over a list of keys,
\* return a non-decreasing sequence whose multiset is the multiset sum of the
\* posting lists stored for the key(s) in each opened reader: an id stored in m
\* segments appears m times.
C13_ResolveMultisetUnion ==
    store # <<>> =>
        LET lists == [k \in Keys |-> StoredLists(k)]
            ids == [k \in Keys |-> UNION {Range(lists[k][r]) : r \in DOMAIN StoreReaders}]
            stored == [k \in Keys |-> [x \in ids[k] |->
                         Cardinality(UNION {{<<r, i>> : i \in {j \in DOMAIN lists[k][r] :
                                                                   lists[k][r][j] = x}} :
                                            r \in DOMAIN StoreReaders})]]
            Stored(k, x) == IF x \in ids[k] THEN stored[k][x] ELSE 0
        IN /\ \A key \in Keys :
                 LET res == Resolve(inodes, StoreReaders, key) IN
                 /\ NonDecreasing(res)
                 /\ \A x \in Range(res) \cup ids[key] :
                       Occurrences(res, x) = Stored(key, x)
           /\ \A keys \in KeyLists :
                 LET res == ResolveWithModeSet(inodes, StoreReaders, "Union", keys, FALSE)
                     all == UNION {ids[keys[n]] : n \in DOMAIN keys}
                 IN /\ NonDecreasing(res)
                    /\ \A x \in Range(res) \cup all :
                          Occurrences(res, x) =
                              (IF Len(keys) >= 1 THEN Stored(keys[1], x) ELSE 0)
                              + (IF Len(keys) >= 2 THEN Stored(keys[2], x) ELSE 0)

\* C13 witness: an opened store with two readers in which an id of a key is stored
\* by both, so that resolve returns it twice
C13_Witness ==
    /\ store # <<>>
    /\ Len(StoreReaders) = 2
    /\ \E key \in Keys : \E x \in StoredIds(<<key>>) :
          /\ Occurrences(Resolve(inodes, StoreReaders, key), x) = 2
          /\ \A r \in DOMAIN StoreReaders : Occurrences(StoredLists(key)[r], x) = 1

\* C14: for an opened store, Dedup mode returns, for every list of keys, a
\* strictly increasing sequence whose set of ids is the set of ids of Union mode
\* on the same list.
C14_DedupMode ==
    store # <<>> =>
        \A keys \in KeyLists :
            LET d == ResolveWithModeSet(inodes, StoreReaders, "Dedup", keys, FALSE)
                u == ResolveWithModeSet(inodes, StoreReaders, "Union", keys, FALSE)
            IN StrictlyIncreasing(d) /\ Range(d) = Range(u)

\* C14 witness: an opened store and a key list on which Union mode returns an id
\* more than once
C14_Witness ==
    /\ store # <<>>
    /\ \E keys \in KeyLists :
          ~StrictlyIncreasing(ResolveWithModeSet(inodes, StoreReaders, "Union", keys, FALSE))

\* C15: for an opened store, Intersect mode with set semantics returns, for every
\* non-empty list of keys, the strictly increasing sequence of exactly the ids
\* that occur in resolve(k) for every k of the list, and the empty sequence for
\* the empty list.
C15_IntersectSetSemantics ==
    store # <<>> =>
        \A keys \in KeyLists :
            LET res == ResolveWithModeSet(inodes, StoreReaders, "Intersect", keys, TRUE) IN
            IF keys = <<>> THEN res = <<>>
            ELSE /\ StrictlyIncreasing(res)
                 /\ Range(res) = {x \in Range(Resolve(inodes, StoreReaders, keys[1])) :
                                     \A n \in DOMAIN keys :
                                        x \in Range(Resolve(inodes, StoreReaders, keys[n]))}

\* C15 witness: an opened store and two distinct keys whose intersection is not
\* empty while resolve of one of them returns an id more than once
C15_Witness ==
    /\ store # <<>>
    /\ \E keys \in KeyLists :
          /\ Len(keys) = 2 /\ keys[1] # keys[2]
          /\ ResolveWithModeSet(inodes, StoreReaders, "Intersect", keys, TRUE) # <<>>
          /\ ~StrictlyIncreasing(Resolve(inodes, StoreReaders, keys[1]))

\* the step in which a compaction command runs up to its error or its last write
CompactRuns ==
    /\ cmd.op = "none"
    /\ ncmds' = ncmds + 1
    /\ \/ cmd'.op = "write" /\ cmd'.name = "compact"
       \/ cmd'.op = "none" /\ cmd'.last = "compact"

\* C18: a compaction run on a manifest that lists no Resolver segment ends with an
\* error, creates no file and leaves manifest.json unchanged.
C18_CompactNoInput ==
    [][(CompactRuns /\ CompactInputs(ManifestLoad(mjson)) = <<>>)
          => /\ cmd' = Ended("compact", "err")
             /\ UNCHANGED <<dirents, inodes, mjson>>]_vars

\* C18 witness: a compaction has just failed on a manifest without Resolver segments
C18_Witness ==
    /\ cmd = Ended("compact", "err")
    /\ CompactInputs(ManifestLoad(mjson)) = <<>>
    /\ dirents = <<>>

\* the open step of a reader process
OpenStep == store = <<>> /\ store' # <<>>

\* the active paths that have a manifest record of kind Resolver and whose file
\* opens, as readers
ActiveResolversThatOpen ==
    LET m == ManifestLoad(mjson)
        ok == SelectSeq(ActiveSegmentPaths(m), LAMBDA p :
                 /\ \E i \in DOMAIN m.segments :
                       m.segments[i].path = p /\ m.segments[i].kind = "Resolver"
                 /\ CanOpen(dirents, inodes, p))
    IN [i \in 1..Len(ok) |-> dirents[ok[i]]]

\* every Resolver record of the manifest whose file opens, as readers
AllResolversThatOpen ==
    LET m == ManifestLoad(mjson)
        ok == SelectSeq(m.segments, LAMBDA r :
                 r.kind = "Resolver" /\ CanOpen(dirents, inodes, r.path))
    IN [i \in 1..Len(ok) |-> dirents[ok[i].path]]

\* the files of the archived segments: the archived paths that are not active (a
\* path that add_segment made active again after the promotion names the segment
\* written since, which was never archived)
ArchivedFiles ==
    LET m == ManifestLoad(mjson) IN
    {dirents[p] : p \in (Range(m.archived_paths) \ Range(m.active_paths)) \cap DOMAIN dirents}

C16_WinnerOpens ==
    /\ store # <<>>
    /\ store[1].readers = StoreOpen(dirents, inodes, mjson)
    /\ ActiveResolversThatOpen # <<>>
    /\ ArchivedFiles # {}

\* the ids of the records with hash h that pass their CRC check, over the segments
\* a compaction reads
GoodIds(h) ==
    LET recs == CompactInputs(ManifestLoad(mjson)) IN
    UNION { LET f == inodes[dirents[recs[n].path]] IN
            UNION { Range(decode_sorted_u64(ValueAt(f, Iter(f)[i].off, Iter(f)[i].size)[1])) :
                    i \in {j \in DOMAIN Iter(f) :
                              /\ Iter(f)[j].h = h
                              /\ VerifyCrcAt(f, Iter(f)[j].off, Iter(f)[j].size)} } :
            n \in DOMAIN recs }

\* the ids a writer's temp file f holds for the items with hash h
WrittenIds(wr, f, h) ==
    UNION { Range(decode_sorted_u64(Slice(f, wr.items[i][3], wr.items[i][3] + wr.items[i][4] - 4))) :
            i \in {j \in DOMAIN wr.items : wr.items[j][1] = h} }

\* C17: a compaction over input segments completes, and the ids it writes for a
\* hash are ids of records with that hash that pass their CRC check: a record
\* that fails its CRC check is skipped.
C17_CompactSkipsBadRecords ==
    [][(CompactRuns /\ CompactInputs(ManifestLoad(mjson)) # <<>>)
          => /\ cmd'.op = "write"
             /\ \A i \in DOMAIN cmd'.wr.items :
                   WrittenIds(cmd'.wr, inodes'[Len(inodes')], cmd'.wr.items[i][1])
                       \subseteq GoodIds(cmd'.wr.items[i][1])]_vars

-----------------------------------------------------------------------------
(* Properties of the postings functions and of the bounded record access *)

\* C25: for every strictly increasing id list xs, the empty list and lists that
\* start at 0 included, decode_sorted_u64(encode_sorted_u64(xs)) = xs.
C25_PostingsRoundTrip ==
    (app.fn = "codec" /\ StrictlyIncreasing(app.args[1])) => app.ret[2] = app.args[1]

\* C25 witness: a strictly increasing list that starts at 0 and holds an id of
\* two varint bytes has been encoded and decoded
C25_Witness ==
    /\ app.fn = "codec"
    /\ StrictlyIncreasing(app.args[1])
    /\ Len(app.args[1]) >= 2
    /\ app.args[1][1] = 0
    /\ Len(app.ret[1]) > Len(app.args[1])

\* C26: for non-decreasing a and b, merge_sorted(a, b) is non-decreasing and holds
\* every id as many times as a and b together.
C26_MergeCorrect ==
    (app.fn = "merge_sorted" /\ NonDecreasing(app.args[1]) /\ NonDecreasing(app.args[2]))
        => /\ NonDecreasing(app.ret)
           /\ \A x \in ListIds :
                 Occurrences(app.ret, x)
                     = Occurrences(app.args[1], x) + Occurrences(app.args[2], x)

\* C26 witness: two non-decreasing lists that share an id, one of them holding an
\* id twice, have been merged
C26_Witness ==
    /\ app.fn = "merge_sorted"
    /\ NonDecreasing(app.args[1]) /\ NonDecreasing(app.args[2])
    /\ Range(app.args[1]) \cap Range(app.args[2]) # {}
    /\ ~StrictlyIncreasing(app.args[1])
    /\ app.args[2] # <<>>

\* C27: for strictly increasing a and b, intersect_sorted(a, b) is the strictly
\* increasing list of exactly the ids that occur in both.
C27_IntersectCorrect ==
    (app.fn = "intersect_sorted" /\ StrictlyIncreasing(app.args[1])
                                 /\ StrictlyIncreasing(app.args[2]))
        => /\ StrictlyIncreasing(app.ret)
           /\ Range(app.ret) = Range(app.args[1]) \cap Range(app.args[2])

\* C27 witness: two strictly increasing lists, each with an id the other lacks and
\* with an id in common, have been intersected
C27_Witness ==
    /\ app.fn = "intersect_sorted"
    /\ StrictlyIncreasing(app.args[1]) /\ StrictlyIncreasing(app.args[2])
    /\ app.ret # <<>>
    /\ Range(app.args[1]) \ Range(app.args[2]) # {}
    /\ Range(app.args[2]) \ Range(app.args[1]) # {}

\* C28: value_at and verify_crc_at never fault; for off + size beyond the file or
\* size < 4 value_at returns none and verify_crc_at returns false; otherwise
\* value_at returns the bytes [off, off + size - 4) and verify_crc_at tells
\* whether their CRC-32 equals the trailing u32.
C28_BoundedRecordAccess ==
    /\ app.fn = "value_at" =>
          LET f == app.args[1]
              off == app.args[2]
              size == app.args[3]
          IN /\ ~app.ret.panics
             /\ app.ret.val = IF off + size > FileEnd(f) \/ size < 4 THEN <<>>
                              ELSE <<Slice(f, off, off + size - 4)>>
    /\ app.fn = "verify_crc_at" =>
          LET f == app.args[1]
              off == app.args[2]
              size == app.args[3]
          IN app.ret = IF off + size > FileEnd(f) \/ size < 4 THEN FALSE
                       ELSE LE32(crc32(Slice(f, off, off + size - 4)))
                                = Slice(f, off + size - 4, off + size)

====
